---- MODULE Spec2Model ----
(***************************************************************************)
(* Model of the ACME Liquors order system: the Order Repository            *)
(* (createOrder / updateOrderStatus over the primary orders table and the  *)
(* by-ID projection), the POST /orders and DELETE /orders/{id} handlers,   *)
(* the reserve-inventory ledger, the process-payment stub and the          *)
(* process-order saga orchestrator fed by the work queue.                  *)
(*                                                                         *)
(* Every await of a handler (one storage, queue or Lambda round trip) is   *)
(* one atomic step; the code that runs between two awaits is folded into   *)
(* the step that ends it.                                                  *)
(*                                                                         *)
(* Money is counted in 1/10000 of a dollar, so that 8% of an amount of     *)
(* whole cents is an integer.                                              *)
(***************************************************************************)
EXTENDS Integers, Sequences, FiniteSets, TLC

\* ------------------------------------------------------------------ bounds
MaxUlid == 2        \* number of order ids generateOrderId hands out
MaxQty == 2         \* largest quantity of a request line
MaxStock == 2       \* largest initial quantity_available
MaxLineQty == 6     \* largest quantity of a line in the totals specification
MaxOnHand == 5      \* largest quantity_available in the shortage specification
MaxAsk == 10        \* largest quantity a line asks for in the shortage specification

\* --------------------------------------------------------------- constants
TaxRatePct == 8     \* subtotal * 0.08
MaxReceiveCount == 3

None == "none"
NoKey == "nokey"                 \* the X-Idempotency-Key header is absent
MissingBody == [kind |-> "missing", items |-> <<>>]   \* event.body is null or empty
NotJson == [kind |-> "notjson", items |-> <<>>]       \* event.body does not parse

Customers == {"CUST-1"}
StoreId == "STORE-1"
Skus == {"WINE", "BEER"}
IdemKeys == {"key-AAAA", "key-BBBB"}
\* Header values outside the documented 8..128 characters.
ShortKey == "short"
LongKey ==
  "0123456789012345678901234567890123456789012345678901234567890123456789012345678901234567890123456789012345678901234567890123456789"
\* The X-Idempotency-Key header values a POST /orders request carries.
HeaderKeys == IdemKeys \cup {NoKey, ShortKey, LongKey}

\* isValidIdempotencyKey: exported by the shared utilities.
isValidIdempotencyKey(key) == Len(key) >= 8 /\ Len(key) <= 128
Timestamps == {1}
UnitPrices == {250000}

OrderStatus ==
  {"PENDING", "CONFIRMED", "PROCESSING", "SHIPPED", "DELIVERED", "CANCELLED", "FAILED"}
PaymentState == {"PENDING", "AUTHORIZED", "CAPTURED", "FAILED", "REFUNDED"}

Apis == {"a1", "a2"}
Workers == {"w1", "w2"}
Cancels == {"x1", "x2"}

\* ------------------------------------------------------------ request data
\* A line of a create request, before validation (quantity 0 is invalid).
RawItems == [sku : Skus, quantity : 0..MaxQty, unit_price : UnitPrices]

RawItemLists == {<<>>} \cup {<<i>> : i \in RawItems}
                  \cup {<<i, j>> : i \in RawItems, j \in RawItems}

ItemSchemaDropped(item) == TRUE

\* CreateOrderItemSchema: quantity is a positive integer, unit_price positive.
CreateOrderItemSchema(item) == item.quantity > 0 /\ item.unit_price > 0

\* CreateOrderRequestSchema: at least one item, every item valid.
CreateOrderRequestSchema(body) ==
  /\ "items" \in DOMAIN body
  /\ Len(body.items) >= 1
  /\ \A i \in DOMAIN body.items : CreateOrderItemSchema(body.items[i])

\* parseAndValidateBody: a missing body and a body that is not JSON fail
\* before the schema is tried.
parseAndValidateBody(body) ==
  IF body.kind # "json" THEN FALSE
  ELSE CreateOrderRequestSchema(body)

RECURSIVE SumLines(_)
SumLines(items) ==
  IF items = <<>> THEN 0
  ELSE Head(items).quantity * Head(items).unit_price + SumLines(Tail(items))

TaxOmitted(subtotal) == 0

\* create-order handler, "Calculate totals"
Subtotal(items) == SumLines(items)
Tax(subtotal) == (subtotal * TaxRatePct) \div 100
Total(subtotal, tax) == subtotal + tax

ItemsWithTotals(items) ==
  [i \in DOMAIN items |->
     [sku |-> items[i].sku, quantity |-> items[i].quantity,
      unit_price |-> items[i].unit_price,
      total_price |-> items[i].quantity * items[i].unit_price]]

\* generateOrderSortKey / the handler's `${orderTs}#${orderId}`
OrderTsId(orderTs, orderId) == <<orderTs, orderId>>

\* The Order object the create-order handler builds.
BuildOrder(customerId, orderTs, orderId, idempotencyKey, items) ==
  [customer_id |-> customerId,
   order_ts_id |-> OrderTsId(orderTs, orderId),
   order_id |-> orderId,
   order_ts |-> orderTs,
   store_id |-> StoreId,
   status |-> "PENDING",
   payment_state |-> "PENDING",
   items |-> ItemsWithTotals(items),
   subtotal |-> Subtotal(items),
   tax |-> Tax(Subtotal(items)),
   total |-> Total(Subtotal(items), Tax(Subtotal(items))),
   idempotency_key |-> idempotencyKey]

\* The OrderById item createOrder derives from an Order.
ToOrderById(order) ==
  [order_id |-> order.order_id,
   customer_id |-> order.customer_id,
   order_ts |-> order.order_ts,
   status |-> order.status,
   payment_state |-> order.payment_state,
   store_id |-> order.store_id,
   items |-> order.items,
   subtotal |-> order.subtotal,
   tax |-> order.tax,
   total |-> order.total]

\* Primary key of the orders table: (customer_id, order_ts_id).
OrderKey(order) == <<order.customer_id, order.order_ts_id>>

\* --------------------------------------------------------------- variables
VARIABLES
  orders,       \* primary table: (customer_id, order_ts_id) -> Order
  ordersById,   \* by-ID projection: order_id -> OrderById
  inventory,    \* inventory table: store_sku -> record
  queue,        \* work queue: message id -> [body, receives]
  nextUlid,     \* the next id generateOrderId returns
  api,          \* POST /orders invocations and direct createOrder callers
  rsv,          \* reserve-inventory invocations, one slot per caller
  wk,           \* process-order invocations (the saga orchestrator's workers)
  cx,           \* DELETE /orders/{order_id} invocations
  hist,         \* what has happened: transitions, holds, payments, notifications
  sp            \* the stream processor: change feed, invocation, published events

vars == <<orders, ordersById, inventory, queue, nextUlid, api, rsv, wk, cx, hist, sp>>

EmptyTable == [k \in {} |-> None]

\* PutCommand without a condition / the write of a PutCommand whose condition held
PutItem(table, key, item) ==
  [k \in (DOMAIN table) \cup {key} |-> IF k = key THEN item ELSE table[k]]

\* What a local that was not assigned yet holds.
NoBody == [kind |-> None]
NoOrder == [order_id |-> 0]
NoResponse == [statusCode |-> 0]

ApiIdle ==
  [pc |-> "idle", direct |-> FALSE, idem |-> None, body |-> NoBody, order |-> NoOrder,
   returned |-> FALSE, created |-> FALSE, result |-> NoOrder, response |-> NoResponse]

\* The JSON body of a 201 / 200 answer of POST /orders.
OrderResponse(statusCode, order, created) ==
  [statusCode |-> statusCode, order_id |-> order.order_id,
   status |-> order.status, items |-> order.items,
   subtotal |-> order.subtotal, tax |-> order.tax, total |-> order.total,
   message |-> IF created THEN None ELSE "Order already exists (idempotent)"]

\* The JSON body of a 400 / 500 answer: an error text and nothing of an order.
ErrorResponse(statusCode) ==
  [statusCode |-> statusCode, error |-> "error"]

\* ------------------------------------------------------------- POST /orders
\* handler, up to the call of createOrder: header check, body validation,
\* fresh identifiers, totals.
PostOrders(a, idem, body, ts) ==
  /\ api[a].pc = "idle"
  /\ IF idem = NoKey \/ ~parseAndValidateBody(body)
     THEN /\ api' = [api EXCEPT ![a] = [@ EXCEPT !.pc = "done", !.idem = idem,
                                          !.body = body,
                                          !.response = ErrorResponse(400)]]
          /\ UNCHANGED nextUlid
     ELSE /\ nextUlid <= MaxUlid
          /\ \E c \in Customers :
               api' = [api EXCEPT ![a] = [@ EXCEPT !.pc = "co_put", !.idem = idem,
                          !.body = body,
                          !.order = BuildOrder(c, ts, nextUlid, idem, body.items)]]
          /\ nextUlid' = nextUlid + 1
  /\ UNCHANGED <<orders, ordersById, inventory, queue, rsv, wk, cx, hist, sp>>

\* A caller of the repository's createOrder with an order of its choice.
CallCreateOrder(a, order) ==
  /\ api[a].pc = "idle"
  /\ api' = [api EXCEPT ![a] = [@ EXCEPT !.pc = "co_put", !.direct = TRUE,
                                           !.order = order]]
  /\ UNCHANGED <<orders, ordersById, inventory, queue, nextUlid, rsv, wk, cx, hist, sp>>

CreateGuardDropped(order) == TRUE

\* ConditionExpression "attribute_not_exists(customer_id)" of createOrder's Put.
CreateGuard(order) == OrderKey(order) \notin DOMAIN orders

\* createOrder: the guarded Put of the primary record.
CreatePutPrimary(a) ==
  /\ api[a].pc = "co_put"
  /\ IF CreateGuard(api[a].order)
     THEN /\ orders' = PutItem(orders, OrderKey(api[a].order), api[a].order)
          /\ api' = [api EXCEPT ![a].pc = "co_putbyid"]
     ELSE /\ api' = [api EXCEPT ![a].pc = "co_get"]
          /\ UNCHANGED orders
  /\ UNCHANGED <<ordersById, inventory, queue, nextUlid, rsv, wk, cx, hist, sp>>

\* createOrder's answer handled without looking at created.
EnqueuesAlways(a, created, order) ==
  [api[a] EXCEPT !.returned = TRUE, !.created = created, !.result = order,
     !.pc = IF api[a].direct THEN "done" ELSE "enqueue",
     !.response = NoResponse]

\* What the api invocation does once createOrder returned {created, order}:
\* the handler enqueues when created, else answers 200 at once.
AfterCreate(a, created, order) ==
  [api[a] EXCEPT !.returned = TRUE, !.created = created, !.result = order,
     !.pc = IF api[a].direct THEN "done"
            ELSE IF created THEN "enqueue" ELSE "done",
     !.response = IF api[a].direct \/ created THEN NoResponse
                  ELSE OrderResponse(200, order, FALSE)]

\* createOrder: the unconditional Put of the by-ID projection.
CreatePutById(a) ==
  /\ api[a].pc = "co_putbyid"
  /\ ordersById' = PutItem(ordersById, api[a].order.order_id, ToOrderById(api[a].order))
  /\ api' = [api EXCEPT ![a] = AfterCreate(a, TRUE, api[a].order)]
  /\ UNCHANGED <<orders, inventory, queue, nextUlid, rsv, wk, cx, hist, sp>>

\* createOrder: the Put of the by-ID projection rejects.  The catch block
\* rethrows what is not a failed condition; the handler's catch answers 500
\* and sendOrderMessage is not reached.  The primary record stays.
CreatePutByIdThrows(a) ==
  /\ api[a].pc = "co_putbyid"
  /\ api' = [api EXCEPT ![a] = [@ EXCEPT !.pc = "done",
                !.response = IF api[a].direct THEN NoResponse ELSE ErrorResponse(500)]]
  /\ UNCHANGED <<orders, ordersById, inventory, queue, nextUlid, rsv, wk, cx, hist, sp>>

\* createOrder, guard failed: getOrderByCustomer; a missing record rethrows,
\* which the handler answers with 500.
CreateGetExisting(a) ==
  /\ api[a].pc = "co_get"
  /\ IF OrderKey(api[a].order) \in DOMAIN orders
     THEN api' = [api EXCEPT ![a] = AfterCreate(a, FALSE, orders[OrderKey(api[a].order)])]
     ELSE api' = [api EXCEPT ![a] = [@ EXCEPT !.pc = "done",
                     !.response = IF api[a].direct THEN NoResponse ELSE ErrorResponse(500)]]
  /\ UNCHANGED <<orders, ordersById, inventory, queue, nextUlid, rsv, wk, cx, hist, sp>>

\* sendOrderMessage: the message of a newly created order.
OrderMessage(order) ==
  [order_id |-> order.order_id, customer_id |-> order.customer_id,
   order_ts_id |-> order.order_ts_id, action |-> "PROCESS_ORDER"]

\* handler: enqueue the work item, then answer 201.
PostEnqueue(a) ==
  /\ api[a].pc = "enqueue"
  /\ queue' = Append(queue, [body |-> OrderMessage(api[a].order), receives |-> 0,
                             state |-> "queued"])
  /\ api' = [api EXCEPT ![a] = [@ EXCEPT !.pc = "done",
                !.response = OrderResponse(201, api[a].result, TRUE)]]
  /\ UNCHANGED <<orders, ordersById, inventory, nextUlid, rsv, wk, cx, hist, sp>>

\* handler: sendOrderMessage rejects.  The handler's catch answers 500; the
\* order createOrder stored stays, and no work item exists for it.
PostEnqueueThrows(a) ==
  /\ api[a].pc = "enqueue"
  /\ api' = [api EXCEPT ![a] = [@ EXCEPT !.pc = "done",
                                        !.response = ErrorResponse(500)]]
  /\ UNCHANGED <<orders, ordersById, inventory, queue, nextUlid, rsv, wk, cx, hist, sp>>

\* --------------------------------------------------------- reserve-inventory
\* `${event.store_id}#${item.sku}`
StoreSku(storeId, sku) == <<storeId, sku>>

RsvIdle ==
  [pc |-> "idle", caller |-> None, order_id |-> 0, store_id |-> None, items |-> <<>>,
   unread |-> {}, checks |-> <<>>, resp |-> None]

\* The handler's state on entry: every item's GetCommand is still to be issued.
RsvStart(caller, orderId, storeId, items) ==
  [pc |-> "read", caller |-> caller, order_id |-> orderId, store_id |-> storeId,
   items |-> items,
   unread |-> DOMAIN items,
   checks |-> [i \in DOMAIN items |-> None], resp |-> None]

AvailableIgnoresReserved(inv, storeSku) ==
  IF storeSku \in DOMAIN inv THEN inv[storeSku].quantity_available ELSE 0

\* available = quantity_available - quantity_reserved, 0 for an absent record
Available(inv, storeSku) ==
  IF storeSku \in DOMAIN inv
  THEN inv[storeSku].quantity_available - inv[storeSku].quantity_reserved
  ELSE 0

\* One entry of availabilityChecks.
AvailabilityCheck(inv, storeId, item) ==
  [sku |-> item.sku, store_sku |-> StoreSku(storeId, item.sku),
   requested |-> item.quantity,
   available |-> Available(inv, StoreSku(storeId, item.sku)),
   sufficient |-> Available(inv, StoreSku(storeId, item.sku)) >= item.quantity]

\* insufficientItems mapped to failed_items, in request order
RECURSIVE FailedItems(_)
FailedItems(checks) ==
  IF checks = <<>> THEN <<>>
  ELSE IF Head(checks).sufficient THEN FailedItems(Tail(checks))
       ELSE <<[sku |-> Head(checks).sku, requested |-> Head(checks).requested,
               available |-> Head(checks).available]>> \o FailedItems(Tail(checks))

RsvOk == [success |-> TRUE, failed_items |-> <<>>, error |-> None]
RsvInsufficient(checks) ==
  [success |-> FALSE, failed_items |-> FailedItems(checks),
   error |-> "Insufficient inventory"]
RsvChanged ==
  [success |-> FALSE, failed_items |-> <<>>,
   error |-> "Inventory changed during reservation, please retry"]
RsvError == [success |-> FALSE, failed_items |-> <<>>, error |-> "Error"]

\* handler: one GetCommand of the Promise.all completes; after the last one
\* the insufficient items are filtered and the request is rejected, or the
\* transaction is built.
ReserveRead(w, i) ==
  /\ rsv[w].pc = "read"
  /\ i \in rsv[w].unread
  /\ LET checks == [rsv[w].checks EXCEPT
                      ![i] = AvailabilityCheck(inventory, rsv[w].store_id, rsv[w].items[i])]
         unread == rsv[w].unread \ {i}
     IN rsv' = [rsv EXCEPT ![w] =
                  IF unread # {} THEN [@ EXCEPT !.checks = checks, !.unread = unread]
                  ELSE IF FailedItems(checks) # <<>>
                  THEN [@ EXCEPT !.checks = checks, !.unread = unread, !.pc = "done",
                                 !.resp = RsvInsufficient(checks)]
                  ELSE [@ EXCEPT !.checks = checks, !.unread = unread, !.pc = "commit"]]
  /\ UNCHANGED <<orders, ordersById, inventory, queue, nextUlid, api, wk, cx, hist, sp>>

ReserveConditionDropped(inv, storeSku, qty) == TRUE

\* ConditionExpression of one Update of the transaction:
\* (quantity_available - if_not_exists(quantity_reserved, 0)) >= qty;
\* it cannot hold of a record that does not exist.
ReserveCondition(inv, storeSku, qty) ==
  /\ storeSku \in DOMAIN inv
  /\ inv[storeSku].quantity_available - inv[storeSku].quantity_reserved >= qty

\* TransactWriteItems refuses a request with two operations on one item.
DistinctTargets(storeId, items) ==
  \A i \in DOMAIN items, j \in DOMAIN items : i # j => items[i].sku # items[j].sku

ReleasesInstead(inv, storeId, items) ==
  [k \in DOMAIN inv |->
     IF \E i \in DOMAIN items : <<storeId, items[i].sku>> = k
     THEN LET i == CHOOSE i \in DOMAIN items : <<storeId, items[i].sku>> = k
          IN [inv[k] EXCEPT !.quantity_reserved = @ - items[i].quantity]
     ELSE inv[k]]

\* UpdateExpression: quantity_reserved = quantity_reserved + qty, for every
\* item of the transaction (the targets are distinct).
ApplyReservation(inv, storeId, items) ==
  [k \in DOMAIN inv |->
     IF \E i \in DOMAIN items : StoreSku(storeId, items[i].sku) = k
     THEN LET i == CHOOSE i \in DOMAIN items : StoreSku(storeId, items[i].sku) = k
          IN [inv[k] EXCEPT !.quantity_reserved = @ + items[i].quantity]
     ELSE inv[k]]

\* The same updates made one item at a time, each under its own condition.
ApplyEachAlone(inv, storeId, items) ==
  [k \in DOMAIN inv |->
     IF \E i \in DOMAIN items : /\ StoreSku(storeId, items[i].sku) = k
                                /\ ReserveCondition(inv, k, items[i].quantity)
     THEN LET i == CHOOSE i \in DOMAIN items :
                     /\ StoreSku(storeId, items[i].sku) = k
                     /\ ReserveCondition(inv, k, items[i].quantity)
          IN [inv[k] EXCEPT !.quantity_reserved = @ + items[i].quantity]
     ELSE inv[k]]

TransactionCommits(inv, storeId, items) ==
  /\ DistinctTargets(storeId, items)
  /\ \A i \in DOMAIN items :
       ReserveCondition(inv, StoreSku(storeId, items[i].sku), items[i].quantity)

TransactWriteNotAtomic(inv, storeId, items) == ApplyEachAlone(inv, storeId, items)

\* executeTransaction: all the updates or none.
TransactWrite(inv, storeId, items) ==
  IF TransactionCommits(inv, storeId, items)
  THEN ApplyReservation(inv, storeId, items)
  ELSE inv

\* handler: the transaction; TransactionCanceledException and any other error
\* become a failure result.
ReserveCommit(w) ==
  /\ rsv[w].pc = "commit"
  /\ inventory' = TransactWrite(inventory, rsv[w].store_id, rsv[w].items)
  /\ rsv' = [rsv EXCEPT ![w] = [@ EXCEPT !.pc = "done",
               !.resp = IF TransactionCommits(inventory, rsv[w].store_id, rsv[w].items)
                        THEN RsvOk
                        ELSE IF DistinctTargets(rsv[w].store_id, rsv[w].items)
                        THEN RsvChanged ELSE RsvError]]
  /\ hist' = IF /\ rsv[w].caller = "orchestrator"
                /\ TransactionCommits(inventory, rsv[w].store_id, rsv[w].items)
             THEN [hist EXCEPT !.reserved[rsv[w].order_id] = @ + 1]
             ELSE hist
  /\ UNCHANGED <<orders, ordersById, queue, nextUlid, api, wk, cx, sp>>

\* A caller invoking the reserve-inventory function on its own.
DirectReserve(w, storeId, items) ==
  /\ rsv[w].pc = "idle"
  /\ rsv' = [rsv EXCEPT ![w] = RsvStart("direct", 0, storeId, items)]
  /\ UNCHANGED <<orders, ordersById, inventory, queue, nextUlid, api, wk, cx, hist, sp>>

\* The direct caller takes the response.
DirectReserveReturn(w) ==
  /\ rsv[w].pc = "done"
  /\ rsv[w].caller = "direct"
  /\ rsv' = [rsv EXCEPT ![w] = RsvIdle]
  /\ UNCHANGED <<orders, ordersById, inventory, queue, nextUlid, api, wk, cx, hist, sp>>

\* --------------------------------------------------------- updateOrderStatus
OrderIds == 1..MaxUlid

HistEmpty ==
  [log |-> [o \in OrderIds |-> <<>>],       \* the status writes of the primary record
   reserved |-> [o \in OrderIds |-> 0],     \* reservations committed for the order
   paid |-> [o \in OrderIds |-> 0],         \* runs of the payment function for it
   notified |-> {},                         \* notifications dispatched
   refused |-> {},                          \* <<work item, status found>> of failed CONFIRMED guards
   reported |-> {}]                         \* work items a returned batch response listed

StatusGuardDropped(table, key, expected) == TRUE

\* ConditionExpression "#status = :currentStatus", set only when
\* expectedCurrentStatus is given.
StatusGuard(table, key, expected) ==
  \/ expected = None
  \/ key \in DOMAIN table /\ table[key].status = expected

\* UpdateExpression "SET #status = :newStatus" (UpdateCommand creates the
\* item when the key is not there).
SetStatus(table, key, newStatus) ==
  IF key \in DOMAIN table
  THEN [table EXCEPT ![key] = [@ EXCEPT !.status = newStatus]]
  ELSE PutItem(table, key, [status |-> newStatus])

\* The transition a successful primary update adds to the history.
Logged(h, orderId, key, expected, newStatus) ==
  [h EXCEPT !.log[orderId] =
     Append(@, [from |-> IF key \in DOMAIN orders THEN orders[key].status ELSE None,
                expected |-> expected,
                to |-> newStatus])]

\* The key the callers of updateOrderStatus build from a by-ID record:
\* (customer_id, `${order.order_ts}#${order.order_id}`).
PrimaryKeyOf(customerId, order) ==
  <<customerId, OrderTsId(order.order_ts, order.order_id)>>

\* --------------------------------------------------- DELETE /orders/{order_id}
CancellableWhileProcessing == {"PENDING", "CONFIRMED", "PROCESSING"}
CANCELLABLE_STATUSES == {"PENDING", "CONFIRMED"}

\* The locals `order` and the response before they are assigned.
CxIdle == [pc |-> "idle", order_id |-> 0, order |-> NoOrder, response |-> NoResponse]

CancelResponse(statusCode, error, currentStatus) ==
  [statusCode |-> statusCode, error |-> error, current_status |-> currentStatus]

\* handler: getOrderById, then 404, 409 with the status read, or on to the
\* guarded update.
CancelGet(x, orderId) ==
  /\ cx[x].pc = "idle"
  /\ cx' = [cx EXCEPT ![x] =
       IF orderId \notin DOMAIN ordersById
       THEN [@ EXCEPT !.pc = "done", !.order_id = orderId,
                      !.response = CancelResponse(404, "Order not found", None)]
       ELSE IF ordersById[orderId].status \notin CANCELLABLE_STATUSES
       THEN [@ EXCEPT !.pc = "done", !.order_id = orderId,
                      !.order = ordersById[orderId],
                      !.response = CancelResponse(409, "Order cannot be cancelled",
                                                  ordersById[orderId].status)]
       ELSE [@ EXCEPT !.pc = "primary", !.order_id = orderId,
                      !.order = ordersById[orderId]]]
  /\ UNCHANGED <<orders, ordersById, inventory, queue, nextUlid, api, rsv, wk, hist, sp>>

\* The expectedCurrentStatus the cancel handler passes: the status it read.
CancelExpectsNothing(order) == None
CancelExpected(order) == order.status

\* updateOrderStatus(CANCELLED, order.status): the guarded update of the
\* primary record; a failed guard returns false, answered 409.
CancelPrimary(x) ==
  /\ cx[x].pc = "primary"
  /\ LET key == PrimaryKeyOf(cx[x].order.customer_id, cx[x].order) IN
     IF StatusGuard(orders, key, CancelExpected(cx[x].order))
     THEN /\ orders' = SetStatus(orders, key, "CANCELLED")
          /\ hist' = Logged(hist, cx[x].order_id, key, CancelExpected(cx[x].order), "CANCELLED")
          /\ cx' = [cx EXCEPT ![x].pc = "byid"]
     ELSE /\ cx' = [cx EXCEPT ![x] = [@ EXCEPT !.pc = "done",
                      !.response = CancelResponse(409, "Order status changed, please retry",
                                                  None)]]
          /\ UNCHANGED <<orders, hist>>
  /\ UNCHANGED <<ordersById, inventory, queue, nextUlid, api, rsv, wk, sp>>

\* updateOrderStatus: the update of the by-ID projection, then 200.
CancelById(x) ==
  /\ cx[x].pc = "byid"
  /\ ordersById' = SetStatus(ordersById, cx[x].order_id, "CANCELLED")
  /\ cx' = [cx EXCEPT ![x] = [@ EXCEPT !.pc = "done",
               !.response = CancelResponse(200, None, None)]]
  /\ UNCHANGED <<orders, inventory, queue, nextUlid, api, rsv, wk, hist, sp>>

\* ------------------------------------------------------------- process-order
\* What invokeFunction returns: success is false when the invocation itself
\* failed; otherwise the function's own response is carried in data.
InvokeFailed == [success |-> FALSE, ran |-> FALSE, data |-> [success |-> FALSE]]
InvokeReturned(data) == [success |-> TRUE, ran |-> TRUE, data |-> data]
NotInvoked == [success |-> FALSE, ran |-> FALSE, data |-> [success |-> FALSE]]

WkIdle ==
  [pc |-> "idle", batch |-> <<>>, idx |-> 0, failures |-> {}, order |-> NoOrder,
   inventoryResult |-> NotInvoked, paymentResult |-> NotInvoked,
   refusedBefore |-> {}]   \* history: the refusals reported before this delivery

\* The message of the record the worker is at.
Message(w) == queue[wk[w].batch[wk[w].idx]].body

\* The batches a poll can hand to one invocation: one or two different
\* messages that are still in the queue and were received fewer than
\* maxReceiveCount times.
Receivable(i) ==
  /\ queue[i].state = "queued"
  /\ queue[i].receives < MaxReceiveCount

Batches ==
  LET R == {i \in DOMAIN queue : Receivable(i)}
  IN {<<i>> : i \in R} \cup {b \in {<<i, j>> : i \in R, j \in R} : b[1] # b[2]}

\* The event source delivers a batch to an invocation of the handler.  A
\* message stays in the queue until it is acknowledged, so it can be handed
\* to another invocation meanwhile (at-least-once delivery).
Receive(w, batch) ==
  /\ wk[w].pc = "idle"
  /\ batch \in Batches
  /\ queue' = [i \in DOMAIN queue |->
                 IF \E n \in DOMAIN batch : batch[n] = i
                 THEN [queue[i] EXCEPT !.receives = @ + 1] ELSE queue[i]]
  /\ wk' = [wk EXCEPT ![w] = [WkIdle EXCEPT !.pc = "get", !.batch = batch, !.idx = 1,
                                            !.refusedBefore =
                            {r \in hist.refused : r[1] \in hist.reported}]]
  /\ UNCHANGED <<orders, ordersById, inventory, nextUlid, api, rsv, cx, hist, sp>>

\* `continue` / the end of the loop body: on to the next record, or to the
\* return of batchItemFailures.
Continue(w, failed) ==
  [pc |-> IF wk[w].idx < Len(wk[w].batch) THEN "get" ELSE "return",
   batch |-> wk[w].batch,
   idx |-> IF wk[w].idx < Len(wk[w].batch) THEN wk[w].idx + 1 ELSE wk[w].idx,
   failures |-> IF failed THEN wk[w].failures \cup {wk[w].batch[wk[w].idx]}
                ELSE wk[w].failures,
   order |-> NoOrder, inventoryResult |-> NotInvoked, paymentResult |-> NotInvoked,
   refusedBefore |-> wk[w].refusedBefore]

\* `order.status !== OrderStatus.PENDING`: the order was already processed.
SkipsNothing(order) == FALSE
AlreadyProcessed(order) == order.status # "PENDING"

\* handler: getOrderById; a missing order and an order that is not PENDING
\* are skipped.
GetOrder(w) ==
  /\ wk[w].pc = "get"
  /\ LET id == Message(w).order_id IN
     wk' = [wk EXCEPT ![w] =
       IF id \notin DOMAIN ordersById THEN Continue(w, FALSE)
       ELSE IF AlreadyProcessed(ordersById[id]) THEN Continue(w, FALSE)
       ELSE [@ EXCEPT !.pc = "reserve", !.order = ordersById[id]]]
  /\ UNCHANGED <<orders, ordersById, inventory, queue, nextUlid, api, rsv, cx, hist, sp>>

\* Step 1, invokeFunction(RESERVE_INVENTORY_FN): the invocation fails (send
\* throws or the function errors: success false, failOrder is entered), or
\* the reserve-inventory handler starts.
InvokeReserve(w, fails) ==
  /\ wk[w].pc = "reserve"
  /\ rsv[w].pc = "idle"
  /\ IF fails
     THEN /\ wk' = [wk EXCEPT ![w] = [@ EXCEPT !.pc = "fail_get",
                                               !.inventoryResult = InvokeFailed]]
          /\ UNCHANGED rsv
     ELSE /\ wk' = [wk EXCEPT ![w].pc = "reserving"]
          /\ rsv' = [rsv EXCEPT ![w] =
               RsvStart("orchestrator", Message(w).order_id, wk[w].order.store_id,
                        wk[w].order.items)]
  /\ UNCHANGED <<orders, ordersById, inventory, queue, nextUlid, api, cx, hist, sp>>

\* The test `!inventoryResult.success` / `!paymentResult.success` of the
\* handler: it reads the success of invokeFunction's result.
ResultFailed(result) == ~result.success

\* Step 1 returns: invokeFunction wraps the handler's response; the handler
\* tests the result and goes on to failOrder or to the payment.
AfterReserve(w) ==
  /\ wk[w].pc = "reserving"
  /\ rsv[w].pc = "done"
  /\ rsv[w].caller = "orchestrator"
  /\ LET result == InvokeReturned(rsv[w].resp) IN
     wk' = [wk EXCEPT ![w] = [@ EXCEPT !.inventoryResult = result,
              !.pc = IF ResultFailed(result) THEN "fail_get" ELSE "payment"]]
  /\ rsv' = [rsv EXCEPT ![w] = RsvIdle]
  /\ UNCHANGED <<orders, ordersById, inventory, queue, nextUlid, api, cx, hist, sp>>

\* simulatePayment: never approves a non-positive amount.
simulatePayment(amount, random) == amount > 0 /\ random

\* UpdateExpression "SET payment_state = :state" of process-payment.
SetPaymentState(table, orderId, state) ==
  IF orderId \in DOMAIN table
  THEN [table EXCEPT ![orderId] = [@ EXCEPT !.payment_state = state]]
  ELSE PutItem(table, orderId, [payment_state |-> state])

\* Step 2, invokeFunction(PROCESS_PAYMENT_FN): the invocation fails, or the
\* process-payment handler runs: it draws the outcome, writes payment_state
\* to the by-ID record and returns {success, payment_state}.
ProcessPayment(w, fails, random) ==
  /\ wk[w].pc = "payment"
  /\ IF fails
     THEN /\ wk' = [wk EXCEPT ![w] = [@ EXCEPT !.pc = "fail_get",
                                               !.paymentResult = InvokeFailed]]
          /\ UNCHANGED <<ordersById, hist>>
     ELSE LET approved == simulatePayment(wk[w].order.total, random)
              result == InvokeReturned([success |-> approved])
          IN /\ ordersById' = SetPaymentState(ordersById, Message(w).order_id,
                                 IF approved THEN "CAPTURED" ELSE "FAILED")
             /\ hist' = [hist EXCEPT !.paid[Message(w).order_id] = @ + 1]
             /\ wk' = [wk EXCEPT ![w] = [@ EXCEPT !.paymentResult = result,
                  !.pc = IF ResultFailed(result) THEN "fail_get" ELSE "confirm_primary"]]
  /\ UNCHANGED <<orders, inventory, queue, nextUlid, api, rsv, cx, sp>>

\* Step 3, updateOrderStatus(CONFIRMED, PENDING): the guarded update of the
\* primary record; a failed guard returns false and the record is pushed to
\* batchItemFailures.
ConfirmPrimary(w) ==
  /\ wk[w].pc = "confirm_primary"
  /\ LET key == PrimaryKeyOf(Message(w).customer_id, wk[w].order) IN
     IF StatusGuard(orders, key, "PENDING")
     THEN /\ orders' = SetStatus(orders, key, "CONFIRMED")
          /\ hist' = Logged(hist, Message(w).order_id, key, "PENDING", "CONFIRMED")
          /\ wk' = [wk EXCEPT ![w].pc = "confirm_byid"]
     ELSE /\ wk' = [wk EXCEPT ![w] = Continue(w, TRUE)]
          /\ hist' = [hist EXCEPT !.refused =
               @ \cup {<<wk[w].batch[wk[w].idx],
                         IF key \in DOMAIN orders THEN orders[key].status ELSE None>>}]
          /\ UNCHANGED orders
  /\ UNCHANGED <<ordersById, inventory, queue, nextUlid, api, rsv, cx, sp>>

\* updateOrderStatus: the update of the by-ID projection.
ConfirmById(w) ==
  /\ wk[w].pc = "confirm_byid"
  /\ ordersById' = SetStatus(ordersById, Message(w).order_id, "CONFIRMED")
  /\ wk' = [wk EXCEPT ![w].pc = "notify"]
  /\ UNCHANGED <<orders, inventory, queue, nextUlid, api, rsv, cx, hist, sp>>

DispatchFailureThrows(dispatched) == ~dispatched

\* invokeFunction catches the error of a failed send and returns a result, so
\* a failed dispatch never reaches the handler's catch block.
DispatchThrows(dispatched) == FALSE

\* Step 4, the asynchronous invocation of send-notifications; its result is
\* not looked at, so a failed dispatch changes nothing else.
Notify(w, dispatched) ==
  /\ wk[w].pc = "notify"
  /\ hist' = IF dispatched
             THEN [hist EXCEPT !.notified = @ \cup {<<Message(w).order_id, "CONFIRMED">>}]
             ELSE hist
  /\ wk' = [wk EXCEPT ![w] = Continue(w, DispatchThrows(dispatched))]
  /\ UNCHANGED <<orders, ordersById, inventory, queue, nextUlid, api, rsv, cx, sp>>

\* failOrder: getOrderById; without an order only the notification is sent.
FailGet(w) ==
  /\ wk[w].pc = "fail_get"
  /\ LET id == Message(w).order_id IN
     wk' = [wk EXCEPT ![w] =
       IF id \in DOMAIN ordersById
       THEN [@ EXCEPT !.pc = "fail_primary", !.order = ordersById[id]]
       ELSE [@ EXCEPT !.pc = "fail_notify"]]
  /\ UNCHANGED <<orders, ordersById, inventory, queue, nextUlid, api, rsv, cx, hist, sp>>

\* failOrder, updateOrderStatus(FAILED, PENDING): the guarded update of the
\* primary record; the returned boolean is not looked at.
FailPrimary(w) ==
  /\ wk[w].pc = "fail_primary"
  /\ LET key == PrimaryKeyOf(Message(w).customer_id, wk[w].order) IN
     IF StatusGuard(orders, key, "PENDING")
     THEN /\ orders' = SetStatus(orders, key, "FAILED")
          /\ hist' = Logged(hist, Message(w).order_id, key, "PENDING", "FAILED")
          /\ wk' = [wk EXCEPT ![w].pc = "fail_byid"]
     ELSE /\ wk' = [wk EXCEPT ![w].pc = "fail_notify"]
          /\ UNCHANGED <<orders, hist>>
  /\ UNCHANGED <<ordersById, inventory, queue, nextUlid, api, rsv, cx, sp>>

FailById(w) ==
  /\ wk[w].pc = "fail_byid"
  /\ ordersById' = SetStatus(ordersById, Message(w).order_id, "FAILED")
  /\ wk' = [wk EXCEPT ![w].pc = "fail_notify"]
  /\ UNCHANGED <<orders, inventory, queue, nextUlid, api, rsv, cx, hist, sp>>

\* failOrder: the failure notification, then `continue` in the handler.
FailNotify(w, dispatched) ==
  /\ wk[w].pc = "fail_notify"
  /\ hist' = IF dispatched
             THEN [hist EXCEPT !.notified = @ \cup {<<Message(w).order_id, "FAILED">>}]
             ELSE hist
  /\ wk' = [wk EXCEPT ![w] = Continue(w, FALSE)]
  /\ UNCHANGED <<orders, ordersById, inventory, queue, nextUlid, api, rsv, cx, sp>>

\* The handler returns {batchItemFailures}: the event source deletes the
\* records that are not listed and leaves the listed ones for redelivery.
BatchReturn(w) ==
  /\ wk[w].pc = "return"
  /\ queue' = [i \in DOMAIN queue |->
                 IF (\E n \in DOMAIN wk[w].batch : wk[w].batch[n] = i)
                    /\ i \notin wk[w].failures
                 THEN [queue[i] EXCEPT !.state = "deleted"] ELSE queue[i]]
  /\ wk' = [wk EXCEPT ![w] = WkIdle]
  /\ hist' = [hist EXCEPT !.reported = @ \cup wk[w].failures]
  /\ UNCHANGED <<orders, ordersById, inventory, nextUlid, api, rsv, cx, sp>>

\* ------------------------------------------------------- dead-letter queue
ExhaustedAtOnce(i) == TRUE

\* deadLetterQueue.maxReceiveCount: the message was received that many times.
Exhausted(i) == queue[i].receives >= MaxReceiveCount

\* The queue moves a message that is visible again after its last permitted
\* receive to the dead-letter queue.
DeadLetter(i) ==
  /\ i \in DOMAIN queue
  /\ queue[i].state = "queued"
  /\ Exhausted(i)
  /\ \A w \in Workers : \A n \in DOMAIN wk[w].batch : wk[w].batch[n] # i
  /\ queue' = [queue EXCEPT ![i].state = "dead"]
  /\ UNCHANGED <<orders, ordersById, inventory, nextUlid, api, rsv, wk, cx, hist, sp>>

\* ----------------------------------------------- process-order: storage faults
\* A storage call of the handler's try block rejects with an error other than
\* the failed condition: getOrderById, the primary update of
\* updateOrderStatus (nothing written) or its by-ID update (the primary
\* record is already written).  Control passes to the catch block.
StorageThrows(w) ==
  /\ wk[w].pc \in {"get", "confirm_primary", "confirm_byid"}
  /\ wk' = [wk EXCEPT ![w].pc = "caught"]
  /\ UNCHANGED <<orders, ordersById, inventory, queue, nextUlid, api, rsv, cx, hist, sp>>

\* catch (error): the record is pushed to batchItemFailures and the loop goes
\* on with the next record.
CatchRecord(w) ==
  /\ wk[w].pc = "caught"
  /\ wk' = [wk EXCEPT ![w] = Continue(w, TRUE)]
  /\ UNCHANGED <<orders, ordersById, inventory, queue, nextUlid, api, rsv, cx, hist, sp>>

\* A storage call inside failOrder rejects (getOrderById or one of the
\* updates of updateOrderStatus): control passes to failOrder's own catch.
FailOrderThrows(w) ==
  /\ wk[w].pc \in {"fail_get", "fail_primary", "fail_byid"}
  /\ wk' = [wk EXCEPT ![w].pc = "fail_caught"]
  /\ UNCHANGED <<orders, ordersById, inventory, queue, nextUlid, api, rsv, cx, hist, sp>>

\* failOrder's catch logs the error and returns; the notification is skipped
\* and the handler continues with the next record without listing this one.
FailOrderCatch(w) ==
  /\ wk[w].pc = "fail_caught"
  /\ wk' = [wk EXCEPT ![w] = Continue(w, FALSE)]
  /\ UNCHANGED <<orders, ordersById, inventory, queue, nextUlid, api, rsv, cx, hist, sp>>

\* --------------------------------------------- stream processor: change feed
\* An image of a change record; a record may lack either image.
NoImage == [present |-> FALSE, order_id |-> 0, status |-> None, payment_state |-> None]

Image(orderId, status, paymentState) ==
  [present |-> TRUE, order_id |-> orderId, status |-> status, payment_state |-> paymentState]

\* A change record of the orders table.  dynamodb is FALSE for a record
\* without the dynamodb attribute, malformed is TRUE for a record whose
\* images unmarshall rejects.
ChangeRecord(eventName, oldImage, newImage) ==
  [eventID |-> 0, eventName |-> eventName, dynamodb |-> TRUE, malformed |-> FALSE,
   OldImage |-> oldImage, NewImage |-> newImage]

\* A domain event entry: DetailType/event_type and the compared values.
DomainEvent(eventType, orderId, old, new) ==
  [event_type |-> eventType, order_id |-> orderId, old |-> old, new |-> new]

StatusEventsUnconditional(oldImage, newImage) ==
  <<DomainEvent("ORDER_STATUS_CHANGED", newImage.order_id, oldImage.status, newImage.status)>>

\* transformToDomainEvents, case "MODIFY", status part.
StatusEvents(oldImage, newImage) ==
  IF newImage.status # oldImage.status
  THEN <<DomainEvent("ORDER_STATUS_CHANGED", newImage.order_id,
                     oldImage.status, newImage.status)>>
       \o (IF newImage.status = "CONFIRMED"
           THEN <<DomainEvent("ORDER_CONFIRMED", newImage.order_id, None, None)>>
           ELSE <<>>)
       \o (IF newImage.status = "CANCELLED"
           THEN <<DomainEvent("ORDER_CANCELLED", newImage.order_id, None, None)>>
           ELSE <<>>)
       \o (IF newImage.status = "SHIPPED"
           THEN <<DomainEvent("ORDER_SHIPPED", newImage.order_id, None, None)>>
           ELSE <<>>)
  ELSE <<>>

PaymentEventsWithStatusOnly(oldImage, newImage) ==
  IF newImage.payment_state # oldImage.payment_state /\ newImage.status # oldImage.status
  THEN <<DomainEvent("PAYMENT_STATE_CHANGED", newImage.order_id,
                     oldImage.payment_state, newImage.payment_state)>>
  ELSE <<>>

\* transformToDomainEvents, case "MODIFY", payment part.
PaymentEvents(oldImage, newImage) ==
  IF newImage.payment_state # oldImage.payment_state
  THEN <<DomainEvent("PAYMENT_STATE_CHANGED", newImage.order_id,
                     oldImage.payment_state, newImage.payment_state)>>
  ELSE <<>>

\* transformToDomainEvents: the entries derived from one change record.
transformToDomainEvents(record) ==
  IF ~record.dynamodb THEN <<>>
  ELSE IF record.eventName = "INSERT"
  THEN IF record.NewImage.present
       THEN <<DomainEvent("ORDER_CREATED", record.NewImage.order_id, None,
                          record.NewImage.status)>>
       ELSE <<>>
  ELSE IF record.eventName = "MODIFY"
  THEN IF record.NewImage.present /\ record.OldImage.present
       THEN StatusEvents(record.OldImage, record.NewImage)
            \o PaymentEvents(record.OldImage, record.NewImage)
       ELSE <<>>
  ELSE IF record.eventName = "REMOVE"
  THEN IF record.OldImage.present
       THEN <<DomainEvent("ORDER_DELETED", record.OldImage.order_id, None, None)>>
       ELSE <<>>
  ELSE <<>>

\* transformToDomainEvents throws: unmarshall rejects the images.
TransformThrows(record) == record.dynamodb /\ record.malformed

\* ------------------------------------------------ stream processor: handler
\* publishEvents: entries per PutEvents request.
batchSize == 10

\* The event source's filter: only INSERT and MODIFY records are delivered.
EventSourceFilter(record) == record.eventName \in {"INSERT", "MODIFY"}

\* The invocation: the change feed of the table, event.Records, the handler's
\* batchItemFailures (as the set of listed eventIDs) and eventsToPublish, the
\* offset i of publishEvents, and the entries the event bus has accepted.
\* Every entry is kept together with the eventID of the record it was derived
\* from.
SpIdle ==
  [pc |-> "idle", feed |-> <<>>, Records |-> <<>>, batchItemFailures |-> {},
   eventsToPublish |-> <<>>, i |-> 0, published |-> {}]

\* The entries of one record, each with the record's eventID.
EntriesOf(record) ==
  [n \in DOMAIN transformToDomainEvents(record) |->
     [eventID |-> record.eventID, entry |-> transformToDomainEvents(record)[n]]]

\* handler, first loop: eventsToPublish.push(...domainEvents) for every
\* record whose transformation does not throw.
RECURSIVE CollectEvents(_)
CollectEvents(records) ==
  IF records = <<>> THEN <<>>
  ELSE (IF TransformThrows(Head(records)) THEN <<>> ELSE EntriesOf(Head(records)))
       \o CollectEvents(Tail(records))

\* handler, first loop: the records pushed to batchItemFailures by the catch.
ThrowingRecords(records) ==
  {records[n].eventID : n \in {m \in DOMAIN records : TransformThrows(records[m])}}

\* The event source hands the filtered records of the feed to the handler
\* (no invocation when none passes); the handler runs its first loop.
StreamHandler ==
  /\ sp.pc = "idle"
  /\ LET records == SelectSeq(sp.feed, EventSourceFilter)
         events == CollectEvents(records)
     IN sp' = [sp EXCEPT !.Records = records,
                         !.eventsToPublish = events,
                         !.batchItemFailures = ThrowingRecords(records),
                         !.pc = IF events # <<>> THEN "publish" ELSE "done"]
  /\ UNCHANGED <<orders, ordersById, inventory, queue, nextUlid, api, rsv, wk, cx, hist>>

\* The records listed when publishEvents throws: all of event.Records.
OnlyFirstRecord(records) == {records[1].eventID}
FailedOnPublishError(records) == {records[n].eventID : n \in DOMAIN records}

\* The slice publishEvents sends next.
Slice(events, i) == SubSeq(events, i + 1, IF i + batchSize < Len(events)
                                           THEN i + batchSize ELSE Len(events))

\* publishEvents, one PutEvents request: the bus accepts the entries of the
\* slice except those in rejected (all of them when send itself throws).
\* With a rejected entry publishEvents throws and the handler lists every
\* record; otherwise the loop goes on with the next slice or returns.
PublishBatch(rejected) ==
  /\ sp.pc = "publish"
  /\ LET batch == Slice(sp.eventsToPublish, sp.i)
         accepted == {batch[n] : n \in (DOMAIN batch) \ rejected}
     IN /\ rejected \subseteq DOMAIN batch
        /\ sp' = [sp EXCEPT
             !.published = @ \cup accepted,
             !.i = @ + batchSize,
             !.batchItemFailures =
                IF rejected # {} THEN @ \cup FailedOnPublishError(sp.Records) ELSE @,
             !.pc = IF rejected # {} \/ sp.i + batchSize >= Len(sp.eventsToPublish)
                    THEN "done" ELSE "publish"]
  /\ UNCHANGED <<orders, ordersById, inventory, queue, nextUlid, api, rsv, wk, cx, hist>>

\* What a PutEvents request can reject: nothing, one entry, or every entry.
Rejections(batch) ==
  {{}} \cup {{n} : n \in DOMAIN batch} \cup {DOMAIN batch}

\* ----------------------------------------------------- specification: intake
InitTables ==
  /\ orders = EmptyTable
  /\ ordersById = EmptyTable
  /\ queue = <<>>
  /\ nextUlid = 1
  /\ api = [a \in Apis |-> ApiIdle]
  /\ rsv = [w \in Workers |-> RsvIdle]
  /\ wk = [w \in Workers |-> WkIdle]
  /\ cx = [x \in Cancels |-> CxIdle]
  /\ hist = HistEmpty
  /\ sp = SpIdle

InitCreate ==
  /\ InitTables
  /\ inventory = EmptyTable

\* JSON bodies the request schema refuses for other reasons than a quantity.
MissingFields == [kind |-> "json"]
NonPositivePrice ==
  [kind |-> "json", items |-> <<[sku |-> "WINE", quantity |-> 1, unit_price |-> 0]>>]

PostBodies ==
  {MissingBody, NotJson, MissingFields, NonPositivePrice}
    \cup [kind : {"json"}, items : RawItemLists]

\* The orders a direct caller of createOrder passes.
DirectOrders ==
  {BuildOrder(c, ts, id, k, <<[sku |-> "WINE", quantity |-> q, unit_price |-> p]>>) :
     c \in Customers, ts \in Timestamps, id \in 1..MaxUlid, k \in IdemKeys,
     q \in 1..MaxQty, p \in UnitPrices}

NextCreate ==
  \/ \E a \in Apis, idem \in HeaderKeys, body \in PostBodies, ts \in Timestamps :
       PostOrders(a, idem, body, ts)
  \/ \E a \in Apis, order \in DirectOrders : CallCreateOrder(a, order)
  \/ \E a \in Apis : CreatePutPrimary(a)
  \/ \E a \in Apis : CreatePutById(a)
  \/ \E a \in Apis : CreateGetExisting(a)
  \/ \E a \in Apis : PostEnqueue(a)

SpecCreate == InitCreate /\ [][NextCreate]_vars

\* ------------------------------------------- specification: intake, faults
\* The intake with a by-ID projection whose Put can be rejected.
NextCreateFaults ==
  \/ NextCreate
  \/ \E a \in Apis : CreatePutByIdThrows(a)

SpecCreateFaults == InitCreate /\ [][NextCreateFaults]_vars

\* ---------------------------------------------------- specification: totals
\* One POST /orders invocation over bodies of one or two lines whose
\* quantities reach MaxLineQty and whose unit prices are 8.00, 25.00 and
\* 0.9999 dollars.
TotalsPrices == {80000, 250000, 9999}

TotalsItems == [sku : Skus, quantity : 1..MaxLineQty, unit_price : TotalsPrices]

TotalsBodies ==
  [kind : {"json"},
   items : {<<i>> : i \in TotalsItems} \cup {<<i, j>> : i \in TotalsItems, j \in TotalsItems}]

NextTotals ==
  \/ \E body \in TotalsBodies, ts \in Timestamps :
       PostOrders("a1", "key-AAAA", body, ts)
  \/ CreatePutPrimary("a1")
  \/ CreatePutById("a1")
  \/ PostEnqueue("a1")

SpecTotals == InitCreate /\ [][NextTotals]_vars

\* ---------------------------------------------------------------- claims C1, C2
\* The api invocations whose createOrder call carries primary key k and has
\* passed its guarded Put with the guard holding.
CreateWinners(k) ==
  {b \in Apis : /\ api[b].pc \in {"co_putbyid", "enqueue", "done"}
                /\ api[b].pc = "done" => api[b].returned /\ api[b].created
                /\ OrderKey(api[b].order) = k}

\* C1: createOrder calls that carry the same primary key store exactly one
\* primary record: at most one of them returns created = TRUE and its order is
\* the stored record; every other call returns created = FALSE together with
\* the stored record, which is the winner's order, not its own.
C1_CreateOnce ==
  \A a \in Apis :
    api[a].returned =>
      LET k == OrderKey(api[a].order) IN
        /\ k \in DOMAIN orders
        /\ Cardinality(CreateWinners(k)) = 1
        /\ api[a].created => /\ a \in CreateWinners(k)
                             /\ orders[k] = api[a].order
                             /\ api[a].result = api[a].order
        /\ ~api[a].created => /\ a \notin CreateWinners(k)
                              /\ api[a].result = orders[k]
                              /\ \E b \in CreateWinners(k) : orders[k] = api[b].order

\* Two createOrder calls with the same key and different orders have both
\* returned: one created, the other was handed the stored order.
C1_Witness ==
  \E a \in Apis, b \in Apis :
    /\ api[a].returned /\ api[b].returned
    /\ OrderKey(api[a].order) = OrderKey(api[b].order)
    /\ api[a].order # api[b].order
    /\ api[a].created /\ ~api[b].created
    /\ api[b].result = api[a].order

\* The POST /orders invocations that were answered 201 or 200.
PostAnswered(a) ==
  /\ api[a].pc = "done" /\ ~api[a].direct /\ api[a].returned

\* C2: two POST /orders with the same X-Idempotency-Key and the same body are
\* answered 201 and 200 with the same order_id, the 200 carrying the message,
\* and one order is stored for that idempotency key.
C2_IdempotentPost ==
  \A a \in Apis, b \in Apis :
    (/\ a # b /\ PostAnswered(a) /\ PostAnswered(b)
     /\ api[a].idem = api[b].idem /\ api[a].body = api[b].body) =>
      /\ {api[a].response.statusCode, api[b].response.statusCode} = {200, 201}
      /\ api[a].response.order_id = api[b].response.order_id
      /\ Cardinality({k \in DOMAIN orders :
                        orders[k].idempotency_key = api[a].idem}) = 1

\* ---------------------------------------------------- specification: ledger
InventoryRecords ==
  {[quantity_available |-> qa, quantity_reserved |-> qr] :
     qa \in 0..MaxStock, qr \in 0..MaxStock}

\* The inventory tables the ledger can start from: any subset of the SKUs
\* stocked, with quantity_reserved <= quantity_available.
InitInventories ==
  UNION {[{StoreSku(StoreId, s) : s \in present} ->
            {r \in InventoryRecords : r.quantity_reserved <= r.quantity_available}] :
         present \in SUBSET Skus}

ReserveItems == [sku : Skus, quantity : 1..MaxQty]
ReserveItemLists ==
  {<<i>> : i \in ReserveItems} \cup {<<i, j>> : i \in ReserveItems, j \in ReserveItems}

\* The requests of the direct callers: w1 sends any list of one or two lines
\* (a repeated SKU included), its competitors send one line.
DirectRequests(w) ==
  IF w = "w1" THEN ReserveItemLists ELSE {<<i>> : i \in ReserveItems}

InitReserve ==
  /\ InitTables
  /\ inventory \in InitInventories

NextReserve ==
  \/ \E w \in Workers : \E items \in DirectRequests(w) : DirectReserve(w, StoreId, items)
  \/ \E w \in Workers, i \in 1..2 : ReserveRead(w, i)
  \/ \E w \in Workers : ReserveCommit(w)
  \/ \E w \in Workers : DirectReserveReturn(w)

SpecReserve == InitReserve /\ [][NextReserve]_vars

\* -------------------------------------------------- specification: shortage
\* One reserve invocation over a WINE record with up to MaxOnHand on hand,
\* part of it reserved, a BEER record that is absent or holds one unit, and
\* requests of one or two lines asking for up to MaxAsk.
ShortageInventories ==
  {[k \in {StoreSku(StoreId, "WINE")} \cup beer |->
      IF k = StoreSku(StoreId, "WINE")
      THEN [quantity_available |-> qa, quantity_reserved |-> qr]
      ELSE [quantity_available |-> 1, quantity_reserved |-> 0]] :
     qa \in 0..MaxOnHand, qr \in 0..MaxOnHand,
     beer \in {{}, {StoreSku(StoreId, "BEER")}}}

ShortageItems == [sku : Skus, quantity : 1..MaxAsk]

ShortageRequests ==
  {<<i>> : i \in ShortageItems}
    \cup {<<i, j>> : i \in {x \in ShortageItems : x.sku = "WINE"},
                     j \in {x \in ShortageItems : x.sku = "BEER"}}

InitShortage ==
  /\ InitTables
  /\ inventory \in {inv \in ShortageInventories :
         inv[StoreSku(StoreId, "WINE")].quantity_reserved
           <= inv[StoreSku(StoreId, "WINE")].quantity_available}

NextShortage ==
  \/ \E items \in ShortageRequests : DirectReserve("w1", StoreId, items)
  \/ \E i \in 1..2 : ReserveRead("w1", i)
  \/ ReserveCommit("w1")

SpecShortage == InitShortage /\ [][NextShortage]_vars

\* ------------------------------------------------------ specification: saga
\* The stock the saga starts from: WINE for more than one order, one unit of
\* BEER, nothing reserved.
InitInventory ==
  [k \in {StoreSku(StoreId, s) : s \in Skus} |->
     [quantity_available |-> IF k = StoreSku(StoreId, "WINE") THEN MaxStock ELSE 1,
      quantity_reserved |-> 0]]

Init ==
  /\ InitTables
  /\ inventory = InitInventory

\* The request bodies of the saga: one unit of WINE (in stock) and BEER
\* beyond the stock.
SagaBodies ==
  {[kind |-> "json", items |-> <<[sku |-> "WINE", quantity |-> 1, unit_price |-> p]>>] :
     p \in UnitPrices}
  \cup {[kind |-> "json", items |-> <<[sku |-> "BEER", quantity |-> 2, unit_price |-> p]>>] :
     p \in UnitPrices}

NextIntake ==
  \/ \E idem \in {"key-AAAA"}, body \in SagaBodies, ts \in Timestamps :
       PostOrders("a1", idem, body, ts)
  \/ CreatePutPrimary("a1")
  \/ CreatePutById("a1")
  \/ PostEnqueue("a1")

\* The steps of the process-order invocations W.
Orchestrator(W) ==
  \/ \E w \in W, batch \in Batches : Receive(w, batch)
  \/ \E w \in W : GetOrder(w)
  \/ \E w \in W, fails \in BOOLEAN : InvokeReserve(w, fails)
  \/ \E w \in W, i \in 1..2 : ReserveRead(w, i)
  \/ \E w \in W : ReserveCommit(w)
  \/ \E w \in W : AfterReserve(w)
  \/ \E w \in W, fails \in BOOLEAN, random \in BOOLEAN : ProcessPayment(w, fails, random)
  \/ \E w \in W : ConfirmPrimary(w)
  \/ \E w \in W : ConfirmById(w)
  \/ \E w \in W, dispatched \in BOOLEAN : Notify(w, dispatched)
  \/ \E w \in W : FailGet(w)
  \/ \E w \in W : FailPrimary(w)
  \/ \E w \in W : FailById(w)
  \/ \E w \in W, dispatched \in BOOLEAN : FailNotify(w, dispatched)
  \/ \E w \in W : BatchReturn(w)

\* The steps of the cancel-order invocations X.
CancelHandlers(X) ==
  \/ \E x \in X, orderId \in OrderIds : CancelGet(x, orderId)
  \/ \E x \in X : CancelPrimary(x)
  \/ \E x \in X : CancelById(x)

\* One order is taken in, two workers are handed its work item (again and
\* again, also at the same time), one cancellation request arrives.
Next == NextIntake \/ Orchestrator(Workers) \/ CancelHandlers({"x1"})

Spec == Init /\ [][Next]_vars

\* --------------------------------------------- specification: cancellation
\* An order taken in earlier, in any status of its life (fulfilment moves a
\* confirmed order on to PROCESSING, SHIPPED and DELIVERED), both projections
\* in step, its work item still in the queue.
StoredOrder(status) ==
  [BuildOrder("CUST-1", 1, 1, "key-AAAA",
              <<[sku |-> "WINE", quantity |-> 1, unit_price |-> 250000]>>)
     EXCEPT !.status = status]

InitCancel ==
  /\ \E status \in OrderStatus :
       /\ orders = PutItem(EmptyTable, OrderKey(StoredOrder(status)), StoredOrder(status))
       /\ ordersById = PutItem(EmptyTable, 1, ToOrderById(StoredOrder(status)))
  /\ queue = <<[body |-> OrderMessage(StoredOrder("PENDING")), receives |-> 0,
                state |-> "queued"]>>
  /\ inventory = InitInventory
  /\ nextUlid = 2
  /\ api = [a \in Apis |-> ApiIdle]
  /\ rsv = [w \in Workers |-> RsvIdle]
  /\ wk = [w \in Workers |-> WkIdle]
  /\ cx = [x \in Cancels |-> CxIdle]
  /\ hist = HistEmpty
  /\ sp = SpIdle

\* Two cancellation requests and one worker act on the stored order.
NextCancel == CancelHandlers(Cancels) \/ Orchestrator({"w1"})

SpecCancel == InitCancel /\ [][NextCancel]_vars

\* ------------------------------------------------- specification: batches
\* Two orders taken in earlier, both PENDING, their work items in the queue.
StoredPending(orderId) ==
  BuildOrder("CUST-1", 1, orderId, "key-AAAA",
             <<[sku |-> "WINE", quantity |-> 1, unit_price |-> 250000]>>)

InitBatch ==
  /\ orders = [k \in {OrderKey(StoredPending(o)) : o \in 1..2} |-> StoredPending(k[2][2])]
  /\ ordersById = [o \in 1..2 |-> ToOrderById(StoredPending(o))]
  /\ queue = [o \in 1..2 |-> [body |-> OrderMessage(StoredPending(o)), receives |-> 0,
                             state |-> "queued"]]
  /\ inventory = InitInventory
  /\ nextUlid = 3
  /\ api = [a \in Apis |-> ApiIdle]
  /\ rsv = [w \in Workers |-> RsvIdle]
  /\ wk = [w \in Workers |-> WkIdle]
  /\ cx = [x \in Cancels |-> CxIdle]
  /\ hist = HistEmpty
  /\ sp = SpIdle

\* The storage faults of the process-order invocations W.
OrchestratorFaults(W) ==
  \/ \E w \in W : StorageThrows(w)
  \/ \E w \in W : CatchRecord(w)
  \/ \E w \in W : FailOrderThrows(w)
  \/ \E w \in W : FailOrderCatch(w)

\* One worker receives the two work items, one at a time or in one batch,
\* storage calls may fail, and one request to cancel the first order arrives.
NextBatch ==
  \/ Orchestrator({"w1"})
  \/ OrchestratorFaults({"w1"})
  \/ CancelGet("x1", 1)
  \/ CancelPrimary("x1")
  \/ CancelById("x1")

SpecBatch == InitBatch /\ [][NextBatch]_vars

\* ----------------------------------------------- specification: convergence
\* One stored PENDING order with its work item, one worker whose storage
\* calls may fail.  The event source keeps delivering what is receivable and
\* a started invocation runs on, so the worker's steps are weakly fair; a
\* fault is never required to happen.
InitConverge ==
  /\ orders = [k \in {OrderKey(StoredPending(1))} |-> StoredPending(1)]
  /\ ordersById = [o \in {1} |-> ToOrderById(StoredPending(1))]
  /\ queue = <<[body |-> OrderMessage(StoredPending(1)), receives |-> 0,
                state |-> "queued"]>>
  /\ inventory = InitInventory
  /\ nextUlid = 2
  /\ api = [a \in Apis |-> ApiIdle]
  /\ rsv = [w \in Workers |-> RsvIdle]
  /\ wk = [w \in Workers |-> WkIdle]
  /\ cx = [x \in Cancels |-> CxIdle]
  /\ hist = HistEmpty
  /\ sp = SpIdle

NextConverge ==
  \/ Orchestrator({"w1"})
  \/ OrchestratorFaults({"w1"})

\* The steps worker w takes by itself once it can: the handler's own steps,
\* its catch blocks included; the rejection of a storage call is not one.
Progress(w) ==
  \/ Orchestrator({w})
  \/ CatchRecord(w)
  \/ FailOrderCatch(w)

SpecConverge ==
  InitConverge /\ [][NextConverge]_vars /\ WF_vars(Progress("w1"))

\* ------------------------------------------------ specification: redelivery
\* The stored PENDING order and its work item, two workers whose storage
\* calls may fail, and the queue's dead-letter rule.  Deliveries, the steps
\* of a started invocation and the move to the dead-letter queue are weakly
\* fair.
NextRedelivery ==
  \/ Orchestrator(Workers)
  \/ OrchestratorFaults(Workers)
  \/ DeadLetter(1)

SpecRedelivery ==
  /\ InitConverge
  /\ [][NextRedelivery]_vars
  /\ \A w \in Workers : WF_vars(Progress(w))
  /\ WF_vars(DeadLetter(1))

\* --------------------------------------------------- specification: stream
MaxFeed == 4

\* Every single change record of order 1: MODIFY between any two statuses
\* and payment states, INSERT and REMOVE of any image, a MODIFY without its
\* old image, a record without the dynamodb attribute.
AllRecords ==
  {ChangeRecord("MODIFY", Image(1, s1, p1), Image(1, s2, p2)) :
     s1 \in OrderStatus, p1 \in PaymentState, s2 \in OrderStatus, p2 \in PaymentState}
  \cup {ChangeRecord("INSERT", NoImage, Image(1, s, p)) :
          s \in OrderStatus, p \in PaymentState}
  \cup {ChangeRecord("REMOVE", Image(1, s, p), NoImage) :
          s \in OrderStatus, p \in PaymentState}
  \cup {ChangeRecord("MODIFY", NoImage, Image(1, "CONFIRMED", "CAPTURED")),
        [ChangeRecord("MODIFY", NoImage, NoImage) EXCEPT !.dynamodb = FALSE]}

\* The records longer feeds are made of: a confirmation with its payment
\* (three entries), a payment change, a creation, a deletion, and a record
\* that cannot be unmarshalled.
BatchRecords ==
  {ChangeRecord("MODIFY", Image(1, "PENDING", "PENDING"), Image(1, "CONFIRMED", "CAPTURED")),
   ChangeRecord("MODIFY", Image(1, "PENDING", "PENDING"), Image(1, "PENDING", "FAILED")),
   ChangeRecord("INSERT", NoImage, Image(1, "PENDING", "PENDING")),
   ChangeRecord("REMOVE", Image(1, "CANCELLED", "PENDING"), NoImage),
   [ChangeRecord("MODIFY", Image(1, "PENDING", "PENDING"), Image(1, "FAILED", "PENDING"))
      EXCEPT !.malformed = TRUE]}

Feeds ==
  {<<r>> : r \in AllRecords}
  \cup UNION {[1..n -> BatchRecords] : n \in 2..MaxFeed}

\* The stream assigns every record its eventID.
WithEventIDs(feed) == [n \in DOMAIN feed |-> [feed[n] EXCEPT !.eventID = n]]

InitStream ==
  /\ orders = EmptyTable
  /\ ordersById = EmptyTable
  /\ queue = <<>>
  /\ inventory = InitInventory
  /\ nextUlid = 1
  /\ api = [a \in Apis |-> ApiIdle]
  /\ rsv = [w \in Workers |-> RsvIdle]
  /\ wk = [w \in Workers |-> WkIdle]
  /\ cx = [x \in Cancels |-> CxIdle]
  /\ hist = HistEmpty
  /\ \E feed \in Feeds : sp = [SpIdle EXCEPT !.feed = WithEventIDs(feed)]

NextStream ==
  \/ StreamHandler
  \/ \E rejected \in Rejections(Slice(sp.eventsToPublish, sp.i)) : PublishBatch(rejected)

SpecStream == InitStream /\ [][NextStream]_vars

\* ---------------------------------------------------------------- claims C3, C4
\* An availability check of invocation r that has been made found too little.
ShortAtRead(r) ==
  \E i \in (DOMAIN r.items) \ r.unread : ~r.checks[i].sufficient

\* Some item of invocation r has less available in inv than it requests.
ShortNow(inv, r) ==
  \E i \in DOMAIN r.items :
    Available(inv, StoreSku(r.store_id, r.items[i].sku)) < r.items[i].quantity

\* C3: a Reserve request with an item whose available quantity is below the
\* requested one, when read or when the commit is tried, is rejected as a whole
\* and changes no quantity_reserved; the read phase writes nothing.
C3_AllOrNothing ==
  [][\A w \in Workers :
       rsv'[w] # rsv[w] =>
         /\ rsv[w].pc = "read" => inventory' = inventory
         /\ (rsv[w].pc = "read" /\ rsv'[w].unread = {} /\ ShortAtRead(rsv'[w])) =>
              /\ rsv'[w].pc = "done"
              /\ ~rsv'[w].resp.success
              /\ rsv'[w].resp.failed_items # <<>>
         /\ (rsv[w].pc = "commit" /\ ShortNow(inventory, rsv[w])) =>
              /\ rsv'[w].pc = "done"
              /\ ~rsv'[w].resp.success
              /\ inventory' = inventory]_vars

\* A two-line request was rejected although one of its lines was sufficient,
\* and that line's record holds stock.
C3_Witness ==
  \E w \in Workers :
    /\ rsv[w].pc = "done" /\ ~rsv[w].resp.success
    /\ Len(rsv[w].items) = 2
    /\ rsv[w].checks[1].sufficient /\ ~rsv[w].checks[2].sufficient
    /\ rsv[w].checks[1].store_sku \in DOMAIN inventory

\* C4: no inventory record is ever over-reserved.
C4_NeverOversold ==
  \A k \in DOMAIN inventory :
    inventory[k].quantity_reserved <= inventory[k].quantity_available

\* Two reservations raced for the same stock: one caller's commit was refused
\* after its reads had found enough, and the record is reserved to the last unit.
C4_Witness ==
  \E w \in Workers :
    /\ rsv[w].pc = "done" /\ rsv[w].resp = RsvChanged
    /\ \E k \in DOMAIN inventory :
         /\ inventory[k].quantity_reserved = inventory[k].quantity_available
         /\ inventory[k].quantity_reserved > 0

\* ------------------------------------------------------------ claims C5, C6
\* The stored status of the primary record under key, None without a record.
StoredStatus(key) ==
  IF key \in DOMAIN orders THEN orders[key].status ELSE None

\* Worker w is at the guarded write of updateOrderStatus(.., PENDING) and the
\* stored status is another one.
WorkerStale(w) ==
  /\ wk[w].pc \in {"confirm_primary", "fail_primary"}
  /\ StoredStatus(PrimaryKeyOf(Message(w).customer_id, wk[w].order)) # "PENDING"

\* Cancel request x is at the guarded write and the stored status is not the
\* one it read.
CancelStale(x) ==
  /\ cx[x].pc = "primary"
  /\ StoredStatus(PrimaryKeyOf(cx[x].order.customer_id, cx[x].order)) # cx[x].order.status

\* C5: a call of updateOrderStatus whose expectedCurrentStatus is not the
\* stored status when the write is tried changes neither the primary record
\* nor the by-ID projection and returns false (the caller goes on, the by-ID
\* write is not made): process-order lists the record in batchItemFailures,
\* failOrder goes on to its notification, the cancel handler answers 409.
C5_StaleNeverWrites ==
  [][/\ \A w \in Workers :
          (WorkerStale(w) /\ wk'[w].pc # wk[w].pc) =>
            /\ orders' = orders
            /\ ordersById' = ordersById
            /\ wk[w].pc = "confirm_primary" =>
                 /\ wk'[w].pc \in {"get", "return"}
                 /\ wk[w].batch[wk[w].idx] \in wk'[w].failures
            /\ wk[w].pc = "fail_primary" => wk'[w].pc = "fail_notify"
     /\ \A x \in Cancels :
          (CancelStale(x) /\ cx'[x].pc # cx[x].pc) =>
            /\ orders' = orders
            /\ ordersById' = ordersById
            /\ cx'[x].pc = "done"
            /\ cx'[x].response.statusCode = 409]_vars

\* A cancel request that read PENDING was answered 409 because the order had
\* been confirmed meanwhile, and the order is CONFIRMED in both projections.
C5_Witness ==
  \E x \in Cancels :
    /\ cx[x].pc = "done"
    /\ cx[x].response.statusCode = 409
    /\ cx[x].response.error = "Order status changed, please retry"
    /\ cx[x].order.status = "PENDING"
    /\ ordersById[cx[x].order_id].status = "CONFIRMED"
    /\ \A key \in DOMAIN orders : orders[key].status = "CONFIRMED"

\* Some invocation is between its primary write and its by-ID write for order o.
MidTransition(o) ==
  \/ \E w \in Workers : wk[w].pc \in {"confirm_byid", "fail_byid"} /\ Message(w).order_id = o
  \/ \E x \in Cancels : cx[x].pc = "byid" /\ cx[x].order_id = o

\* The transitions of order o that were made expecting the status expected.
WonFrom(o, expected) ==
  {i \in DOMAIN hist.log[o] : hist.log[o][i].expected = expected}

\* C6: of the transitions of one order attempted from the same expected
\* status at most one succeeds (the others take the stale branch, C5), and
\* once no transition is half-way the status in both projections is the one
\* the last winner wrote.
C6_OneWinner ==
  \A o \in OrderIds :
    /\ \A expected \in OrderStatus : Cardinality(WonFrom(o, expected)) <= 1
    /\ \A i \in DOMAIN hist.log[o] : hist.log[o][i].from = hist.log[o][i].expected
    /\ (hist.log[o] # <<>> /\ ~MidTransition(o)) =>
         /\ o \in DOMAIN ordersById
         /\ ordersById[o].status = hist.log[o][Len(hist.log[o])].to
         /\ \A key \in DOMAIN orders :
              orders[key].order_id = o =>
                orders[key].status = hist.log[o][Len(hist.log[o])].to

\* The cancel handler won the race from PENDING; a worker that had paid lost
\* it and reports its record as failed; both projections say CANCELLED.
C6_Witness ==
  /\ hist.log[1] = <<[from |-> "PENDING", expected |-> "PENDING", to |-> "CANCELLED"]>>
  /\ ordersById[1].status = "CANCELLED"
  /\ \A key \in DOMAIN orders : orders[key].status = "CANCELLED"
  /\ \E w \in Workers : wk[w].pc = "return" /\ wk[w].failures # {}
  /\ \E x \in Cancels : cx[x].pc = "done" /\ cx[x].response.statusCode = 200

\* ----------------------------------------------------------------- claim C7
\* The primary key the cancel request x addresses.
CancelKey(x) == PrimaryKeyOf(cx[x].order.customer_id, cx[x].order)

\* C7 as stated: the request succeeds exactly when the order's current status
\* is PENDING or CONFIRMED, and every 409 echoes the current status.
C7_CancelIffCancellable ==
  [][\A x \in Cancels :
       /\ (cx[x].pc = "idle" /\ cx'[x].pc # "idle" /\ cx'[x].order_id \in DOMAIN ordersById) =>
            (cx'[x].pc = "primary" <=>
               ordersById[cx'[x].order_id].status \in {"PENDING", "CONFIRMED"})
       /\ (cx[x].pc = "primary" /\ cx'[x].pc # "primary") =>
            /\ cx'[x].pc = "byid" <=> StoredStatus(CancelKey(x)) \in {"PENDING", "CONFIRMED"}
            /\ cx'[x].pc = "done" =>
                 /\ cx'[x].response.statusCode = 409
                 /\ cx'[x].response.current_status = StoredStatus(CancelKey(x))]_vars

\* C7, amended: the request succeeds (200, CANCELLED in both projections)
\* exactly when the status it reads is PENDING or CONFIRMED and the stored
\* status is still the one read when the guarded write is tried.  A status
\* read outside {PENDING, CONFIRMED} is answered 409 with that status echoed;
\* a status changed since the read is answered 409 without a status; in both
\* cases the request leaves the order as it is.
C7_CancelAmended ==
  [][\A x \in Cancels :
       /\ (cx[x].pc = "idle" /\ cx'[x].pc # "idle" /\ cx'[x].order_id \in DOMAIN ordersById) =>
            /\ orders' = orders /\ ordersById' = ordersById
            /\ IF ordersById[cx'[x].order_id].status \in {"PENDING", "CONFIRMED"}
               THEN cx'[x].pc = "primary"
               ELSE /\ cx'[x].pc = "done"
                    /\ cx'[x].response.statusCode = 409
                    /\ cx'[x].response.current_status = ordersById[cx'[x].order_id].status
       /\ (cx[x].pc = "primary" /\ cx'[x].pc # "primary") =>
            /\ cx[x].order.status \in {"PENDING", "CONFIRMED"}
            /\ ordersById' = ordersById
            /\ IF StoredStatus(CancelKey(x)) = cx[x].order.status
               THEN /\ cx'[x].pc = "byid"
                    /\ orders'[CancelKey(x)].status = "CANCELLED"
               ELSE /\ cx'[x].pc = "done"
                    /\ cx'[x].response.statusCode = 409
                    /\ cx'[x].response.current_status = None
                    /\ orders' = orders
       /\ (cx[x].pc = "byid" /\ cx'[x].pc # "byid") =>
            /\ cx'[x].pc = "done"
            /\ cx'[x].response.statusCode = 200
            /\ ordersById'[cx[x].order_id].status = "CANCELLED"
            /\ orders' = orders
            /\ orders[CancelKey(x)].status = "CANCELLED"]_vars

\* One request cancelled a CONFIRMED order with 200, the next one was
\* answered 409 with CANCELLED echoed.
C7_Witness ==
  \E x \in Cancels, y \in Cancels :
    /\ cx[x].pc = "done" /\ cx[x].response.statusCode = 200
    /\ cx[x].order.status = "CONFIRMED"
    /\ cx[y].pc = "done" /\ cx[y].response.statusCode = 409
    /\ cx[y].response.current_status = "CANCELLED"
    /\ ordersById[1].status = "CANCELLED"

\* ------------------------------------------------------- claims C8, C9, C10
\* C8: for every order inventory is reserved at most once and the payment
\* function runs at most once, whatever the deliveries of its work item.
C8_ProcessedOnce ==
  \A o \in OrderIds : hist.reserved[o] <= 1 /\ hist.paid[o] <= 1

\* C9: a worker that has written CONFIRMED holds a Reserve response that
\* reports success and a payment response that reports approval.
C9_ConfirmedOnlyAfterBoth ==
  \A w \in Workers :
    wk[w].pc \in {"confirm_byid", "notify"} =>
      /\ wk[w].inventoryResult.ran /\ wk[w].inventoryResult.data.success
      /\ wk[w].paymentResult.ran /\ wk[w].paymentResult.data.success

\* C10: a worker whose Reserve call came back with a failure result is in
\* failOrder or past it: it does not go on to the payment and the confirmation.
C10_ReserveFailureFailsOrder ==
  \A w \in Workers :
    (wk[w].inventoryResult.ran /\ ~wk[w].inventoryResult.data.success) =>
      wk[w].pc \notin {"payment", "confirm_primary", "confirm_byid", "notify"}

\* ---------------------------------------------------------------- claim C11
\* C11: a worker whose reservation succeeded and whose payment call came back
\* declined or with an error result is in failOrder or past it: it never goes
\* on to write CONFIRMED.
C11_PaymentFailureFailsOrder ==
  \A w \in Workers :
    (/\ wk[w].inventoryResult.ran /\ wk[w].inventoryResult.data.success
     /\ wk[w].paymentResult.ran /\ ~wk[w].paymentResult.data.success) =>
      wk[w].pc \notin {"confirm_primary", "confirm_byid", "notify"}

\* ---------------------------------------------------------------- claim C12
\* Worker w read the order as PENDING, has reserved and paid, and is at its
\* CONFIRMED write while the primary record says CANCELLED.
ConfirmAfterCancel(w) ==
  /\ wk[w].pc = "confirm_primary"
  /\ wk[w].order.status = "PENDING"
  /\ StoredStatus(PrimaryKeyOf(Message(w).customer_id, wk[w].order)) = "CANCELLED"

\* C12: the CONFIRMED write of a worker that finds the order cancelled since
\* its read writes nothing, sends no notification and lists the record in
\* batchItemFailures; a CANCELLED status is kept by every step in both
\* projections; and a CONFIRMED notification is only ever sent for an order
\* whose CONFIRMED write was made.
C12_CancelBeatsConfirm ==
  [][/\ \A w \in Workers :
          (ConfirmAfterCancel(w) /\ wk'[w].pc # wk[w].pc) =>
            /\ orders' = orders
            /\ ordersById' = ordersById
            /\ hist'.log = hist.log /\ hist'.notified = hist.notified
            /\ hist'.reserved = hist.reserved /\ hist'.paid = hist.paid
            /\ wk'[w].pc \in {"get", "return"}
            /\ wk[w].batch[wk[w].idx] \in wk'[w].failures
     /\ \A key \in DOMAIN orders :
          orders[key].status = "CANCELLED" => orders'[key].status = "CANCELLED"
     /\ \A o \in DOMAIN ordersById :
          ordersById[o].status = "CANCELLED" => ordersById'[o].status = "CANCELLED"
     /\ \A o \in OrderIds :
          <<o, "CONFIRMED">> \in hist'.notified =>
            \E i \in DOMAIN hist'.log[o] : hist'.log[o][i].to = "CONFIRMED"]_vars

\* A worker reserved and paid for order 1, lost its CONFIRMED write to the
\* cancellation and is about to return the record as failed; nothing was
\* notified and the order is CANCELLED in both projections.
C12_Witness ==
  /\ \E w \in Workers : wk[w].pc = "return" /\ wk[w].batch[1] \in wk[w].failures
  /\ hist.reserved[1] = 1 /\ hist.paid[1] = 1
  /\ hist.notified = {}
  /\ Len(hist.log[1]) = 1 /\ hist.log[1][1].to = "CANCELLED"
  /\ 1 \in DOMAIN ordersById /\ ordersById[1].status = "CANCELLED"
  /\ \A key \in DOMAIN orders : orders[key].status = "CANCELLED"

\* ---------------------------------------------------------------- claim C13
\* Worker w is at the read of a record whose order is stored with a status
\* other than PENDING.
AtProcessedOrder(w) ==
  /\ wk[w].pc = "get"
  /\ Message(w).order_id \in DOMAIN ordersById
  /\ ordersById[Message(w).order_id].status # "PENDING"

Item(w) == wk[w].batch[wk[w].idx]

\* The step of worker w ends its work on the record it is at.
ItemDone(w) ==
  /\ wk[w].pc \notin {"idle", "return"}
  /\ wk'[w].idx # wk[w].idx \/ wk'[w].pc = "return"

\* The work of w on its record raised an error (in the handler or inside
\* failOrder) or its CONFIRMED write found the guard failed.
RaisedOrGuardFailed(w) ==
  \/ wk[w].pc \in {"caught", "fail_caught"}
  \/ wk[w].pc = "confirm_primary" /\ WorkerStale(w)

\* C14: a record is listed in batchItemFailures exactly when its processing
\* raised an error or its CONFIRMED guard failed; what is listed for the
\* other records of the batch is not touched, the work on one record changes
\* no other order, catching an error undoes nothing, and the returning batch
\* deletes exactly its records that are not listed.
C14_BatchListsExactlyFailures ==
  [][\A w \in Workers :
       /\ ItemDone(w) =>
            /\ Item(w) \in wk'[w].failures <=> RaisedOrGuardFailed(w)
            /\ wk'[w].failures \ {Item(w)} = wk[w].failures
       /\ (wk[w].pc \notin {"idle", "return"} /\ wk'[w].pc # wk[w].pc) =>
            /\ \A o \in DOMAIN ordersById :
                 o # Message(w).order_id => ordersById'[o] = ordersById[o]
            /\ \A key \in DOMAIN orders :
                 orders[key].order_id # Message(w).order_id => orders'[key] = orders[key]
       /\ (wk[w].pc \in {"caught", "fail_caught"} /\ wk'[w].pc # wk[w].pc) =>
            orders' = orders /\ ordersById' = ordersById /\ inventory' = inventory
       /\ (wk[w].pc = "return" /\ wk'[w].pc = "idle") =>
            /\ orders' = orders /\ ordersById' = ordersById
            /\ \A i \in DOMAIN queue :
                 queue'[i].state = "deleted" <=>
                   \/ queue[i].state = "deleted"
                   \/ /\ \E n \in DOMAIN wk[w].batch : wk[w].batch[n] = i
                      /\ i \notin wk[w].failures]_vars

\* ---------------------------------------------------------------- claim C15
\* The moves of the order state machine (a record may also keep its status).
AlongStateMachine(from, to) ==
  \/ from = to
  \/ from = "PENDING" /\ to \in {"CONFIRMED", "FAILED", "CANCELLED"}
  \/ from = "CONFIRMED" /\ to \in {"CANCELLED", "PROCESSING"}
  \/ from = "PROCESSING" /\ to = "SHIPPED"
  \/ from = "SHIPPED" /\ to = "DELIVERED"

\* C15: every step keeps every stored order, moves its status only along the
\* state machine, in the primary record and in the by-ID projection alike
\* (so PENDING is never re-entered and CANCELLED and FAILED are never left),
\* and a record that appears starts as PENDING.
C15_StatusAlongStateMachine ==
  [][/\ \A key \in DOMAIN orders :
          /\ key \in DOMAIN orders'
          /\ AlongStateMachine(orders[key].status, orders'[key].status)
     /\ \A o \in DOMAIN ordersById :
          /\ o \in DOMAIN ordersById'
          /\ AlongStateMachine(ordersById[o].status, ordersById'[o].status)
     /\ \A key \in (DOMAIN orders') \ DOMAIN orders : orders'[key].status = "PENDING"
     /\ \A o \in (DOMAIN ordersById') \ DOMAIN ordersById :
          ordersById'[o].status = "PENDING"]_vars

\* Order 1 was confirmed by a worker and then cancelled: two transitions are
\* logged and both projections say CANCELLED.
C15_Witness ==
  /\ Len(hist.log[1]) = 2
  /\ hist.log[1][1].to = "CONFIRMED" /\ hist.log[1][2].to = "CANCELLED"
  /\ 1 \in DOMAIN ordersById /\ ordersById[1].status = "CANCELLED"
  /\ \A key \in DOMAIN orders : orders[key].status = "CANCELLED"

\* ----------------------------------------------------------- claims C16, C17
\* The number of entries of type eventType the handler derived from the
\* record with eventID id.
Derived(id, eventType) ==
  Cardinality({n \in DOMAIN sp.eventsToPublish :
                 /\ sp.eventsToPublish[n].eventID = id
                 /\ sp.eventsToPublish[n].entry.event_type = eventType})

\* All entries derived from the record with eventID id.
DerivedFrom(id) ==
  Cardinality({n \in DOMAIN sp.eventsToPublish : sp.eventsToPublish[n].eventID = id})

\* The delivered records that are a well-formed MODIFY with both images.
ModifyRecords ==
  {n \in DOMAIN sp.Records :
     /\ sp.Records[n].eventName = "MODIFY"
     /\ sp.Records[n].dynamodb /\ ~sp.Records[n].malformed
     /\ sp.Records[n].OldImage.present /\ sp.Records[n].NewImage.present}

StatusDiffers(r) == r.NewImage.status # r.OldImage.status
PaymentDiffers(r) == r.NewImage.payment_state # r.OldImage.payment_state

\* C16: from a MODIFY record with both images one ORDER_STATUS_CHANGED entry
\* is derived exactly when the status differs, and with it one
\* ORDER_CONFIRMED, ORDER_CANCELLED or ORDER_SHIPPED entry exactly when the
\* new status is CONFIRMED, CANCELLED or SHIPPED; with the status unchanged
\* none of these is derived.
C16_StatusEvents ==
  sp.pc # "idle" =>
    \A n \in ModifyRecords :
      LET r == sp.Records[n]
          One(cond) == IF cond THEN 1 ELSE 0
      IN /\ Derived(r.eventID, "ORDER_STATUS_CHANGED") = One(StatusDiffers(r))
         /\ Derived(r.eventID, "ORDER_CONFIRMED") =
              One(StatusDiffers(r) /\ r.NewImage.status = "CONFIRMED")
         /\ Derived(r.eventID, "ORDER_CANCELLED") =
              One(StatusDiffers(r) /\ r.NewImage.status = "CANCELLED")
         /\ Derived(r.eventID, "ORDER_SHIPPED") =
              One(StatusDiffers(r) /\ r.NewImage.status = "SHIPPED")

\* A MODIFY from PROCESSING to SHIPPED with the payment state unchanged gave
\* the status change and the shipped entry, nothing else.
C16_Witness ==
  /\ sp.pc = "publish"
  /\ Len(sp.Records) = 1
  /\ sp.Records[1].eventName = "MODIFY"
  /\ sp.Records[1].OldImage.status = "PROCESSING"
  /\ sp.Records[1].NewImage.status = "SHIPPED"
  /\ Len(sp.eventsToPublish) = 2
  /\ sp.eventsToPublish[1].entry.event_type = "ORDER_STATUS_CHANGED"
  /\ sp.eventsToPublish[2].entry.event_type = "ORDER_SHIPPED"

\* C17: from a MODIFY record with both images one PAYMENT_STATE_CHANGED entry
\* is derived exactly when payment_state differs; when only payment_state
\* differs it is the record's only entry, and when the status differs too
\* the record's entries are the status change, the status-specific entry if
\* any, and the payment change.
C17_PaymentEvents ==
  sp.pc # "idle" =>
    \A n \in ModifyRecords :
      LET r == sp.Records[n]
          specific == IF r.NewImage.status \in {"CONFIRMED", "CANCELLED", "SHIPPED"}
                      THEN 1 ELSE 0
      IN /\ Derived(r.eventID, "PAYMENT_STATE_CHANGED") =
              (IF PaymentDiffers(r) THEN 1 ELSE 0)
         /\ (PaymentDiffers(r) /\ ~StatusDiffers(r)) => DerivedFrom(r.eventID) = 1
         /\ (PaymentDiffers(r) /\ StatusDiffers(r)) =>
              /\ Derived(r.eventID, "ORDER_STATUS_CHANGED") = 1
              /\ DerivedFrom(r.eventID) = 2 + specific

\* A MODIFY of a CONFIRMED order from AUTHORIZED to CAPTURED gave the payment
\* change alone.
C17_Witness ==
  /\ sp.pc = "publish"
  /\ Len(sp.Records) = 1
  /\ sp.Records[1].OldImage.status = "CONFIRMED"
  /\ sp.Records[1].NewImage.status = "CONFIRMED"
  /\ sp.Records[1].OldImage.payment_state = "AUTHORIZED"
  /\ sp.Records[1].NewImage.payment_state = "CAPTURED"
  /\ Len(sp.eventsToPublish) = 1
  /\ sp.eventsToPublish[1].entry.event_type = "PAYMENT_STATE_CHANGED"

\* ---------------------------------------------------------------- claim C18
\* The entries derived from the record with eventID id.
EntriesFrom(id) ==
  {sp.eventsToPublish[n] : n \in {m \in DOMAIN sp.eventsToPublish :
                                    sp.eventsToPublish[m].eventID = id}}

\* Some derived entry was not accepted by the event bus.
PublishFailed == \E n \in DOMAIN sp.eventsToPublish : sp.eventsToPublish[n] \notin sp.published

\* C18: when the handler has returned, every delivered record either has all
\* its derived entries accepted by the event bus or is listed in
\* batchItemFailures; and when any entry was not accepted (a request threw or
\* reported failed entries, whatever it had accepted before), every delivered
\* record is listed.
C18_PublishFailureRedelivers ==
  sp.pc = "done" =>
    /\ \A n \in DOMAIN sp.Records :
         \/ EntriesFrom(sp.Records[n].eventID) \subseteq sp.published
         \/ sp.Records[n].eventID \in sp.batchItemFailures
    /\ PublishFailed =>
         \A n \in DOMAIN sp.Records : sp.Records[n].eventID \in sp.batchItemFailures

\* Twelve entries were derived; the first request was accepted whole, the
\* second one was not, and all the records are listed.
C18_Witness ==
  /\ sp.pc = "done"
  /\ Len(sp.eventsToPublish) > batchSize
  /\ \A n \in 1..batchSize : sp.eventsToPublish[n] \in sp.published
  /\ PublishFailed
  /\ \E n \in DOMAIN sp.eventsToPublish :
       n > batchSize /\ sp.eventsToPublish[n] \in sp.published
  /\ Cardinality(sp.batchItemFailures) = Len(sp.Records)

\* ---------------------------------------------------------------- claim C19
\* C19: once the feed has been handled with nothing left for redelivery, an
\* ORDER_DELETED entry has been published for every REMOVE record of the feed
\* that carries the deleted order.
C19_RemoveEmitsOrderDeleted ==
  (sp.pc = "done" /\ sp.batchItemFailures = {}) =>
    \A n \in DOMAIN sp.feed :
      (sp.feed[n].eventName = "REMOVE" /\ sp.feed[n].OldImage.present) =>
        \E e \in sp.published :
          /\ e.eventID = sp.feed[n].eventID
          /\ e.entry.event_type = "ORDER_DELETED"
          /\ e.entry.order_id = sp.feed[n].OldImage.order_id

\* ---------------------------------------------------------------- claim C20
\* The work items on the queue that name the stored order with primary key k.
MessagesOf(q, k) ==
  {n \in DOMAIN q : <<q[n].body.customer_id, q[n].body.order_ts_id>> = k}

\* C20: the queue changes only by one appended PROCESS_ORDER message, sent by
\* a POST /orders invocation whose createOrder call returned created = TRUE,
\* for the order that call stored, and that order had no message before; an
\* invocation whose createOrder call returned created = FALSE leaves the
\* queue alone, so no stored order ever has two messages.
C20_EnqueueOnlyOnCreate ==
  [][queue' # queue =>
       \E a \in Apis :
         /\ ~api[a].direct /\ api[a].returned /\ api[a].created
         /\ api[a].pc = "enqueue" /\ api'[a].pc = "done"
         /\ OrderKey(api[a].result) \in DOMAIN orders
         /\ orders[OrderKey(api[a].result)] = api[a].result
         /\ MessagesOf(queue, OrderKey(api[a].result)) = {}
         /\ queue' = Append(queue, [body |-> OrderMessage(api[a].result),
                                    receives |-> 0, state |-> "queued"])
         /\ queue'[Len(queue')].body.action = "PROCESS_ORDER"]_vars

\* A POST /orders invocation met an order already stored under its key, got
\* created = FALSE and answered 200 with the stored order; that order is
\* stored and the queue holds no message for it.
C20_Witness ==
  \E a \in Apis :
    /\ ~api[a].direct /\ api[a].pc = "done"
    /\ api[a].returned /\ ~api[a].created
    /\ api[a].response.statusCode = 200
    /\ OrderKey(api[a].result) \in DOMAIN orders
    /\ orders[OrderKey(api[a].result)] = api[a].result
    /\ MessagesOf(queue, OrderKey(api[a].result)) = {}

\* ---------------------------------------------------------------- claim C21
\* The header of a POST /orders invocation is missing or has a length outside
\* 8..128.
BadKey(a) ==
  /\ ~api[a].direct /\ api[a].pc # "idle"
  /\ api[a].idem = NoKey \/ ~isValidIdempotencyKey(api[a].idem)

\* C21: a POST /orders without the X-Idempotency-Key header, or with a key
\* shorter than 8 or longer than 128 characters, is answered 400 at once: it
\* never calls createOrder, so it stores no order and enqueues no work item.
C21_BadKeyRejected ==
  \A a \in Apis :
    BadKey(a) =>
      /\ api[a].pc = "done"
      /\ ~api[a].returned
      /\ api[a].response.statusCode = 400

\* ---------------------------------------------------------------- claim C22
\* The request body is missing, is not JSON, lacks a required field, has an
\* empty items list, or has a line with a non-positive quantity or unit price.
BodyRefused(body) ==
  \/ body.kind # "json"
  \/ "items" \notin DOMAIN body
  \/ /\ "items" \in DOMAIN body
     /\ \/ body.items = <<>>
        \/ \E i \in DOMAIN body.items :
             body.items[i].quantity <= 0 \/ body.items[i].unit_price <= 0

\* C22: a POST /orders whose body is missing, is not valid JSON or fails the
\* request schema is answered 400 at once: it never calls createOrder, so it
\* writes nothing to storage and enqueues nothing.
C22_BadBodyRejected ==
  \A a \in Apis :
    (~api[a].direct /\ api[a].pc # "idle" /\ BodyRefused(api[a].body)) =>
      /\ api[a].pc = "done"
      /\ ~api[a].returned
      /\ api[a].response.statusCode = 400

\* Two invocations with a valid key, one with a body that lacks a required
\* field and one with a line priced 0, both answered
\* 400, with both tables and the queue still empty.
C22_Witness ==
  /\ api["a1"].pc = "done" /\ api["a1"].idem \in IdemKeys
  /\ api["a1"].body = MissingFields /\ api["a1"].response.statusCode = 400
  /\ api["a2"].pc = "done" /\ api["a2"].idem \in IdemKeys
  /\ api["a2"].body = NonPositivePrice /\ api["a2"].response.statusCode = 400
  /\ DOMAIN orders = {} /\ DOMAIN ordersById = {} /\ queue = <<>>

\* ---------------------------------------------------------------- claim C23
RECURSIVE SumTotalPrice(_)
SumTotalPrice(items) ==
  IF items = <<>> THEN 0 ELSE Head(items).total_price + SumTotalPrice(Tail(items))

\* Absolute value, and one cent in the unit of the model.
Abs(n) == IF n < 0 THEN -n ELSE n
Cent == 10000 \div 100

\* The order of the example: 2 x 25.00 and 6 x 8.00.
ExampleLines(items) ==
  /\ Len(items) = 2
  /\ items[1].quantity = 2 /\ items[1].unit_price = 250000
  /\ items[2].quantity = 6 /\ items[2].unit_price = 80000

\* The amounts of an order agree with its lines.
TotalsAgree(o) ==
  /\ \A i \in DOMAIN o.items :
       o.items[i].total_price = o.items[i].quantity * o.items[i].unit_price
  /\ o.subtotal = SumTotalPrice(o.items)
  /\ Abs(100 * o.tax - 8 * o.subtotal) <= 100 * Cent
  /\ o.total = o.subtotal + o.tax
  /\ ExampleLines(o.items) =>
       o.subtotal = 980000 /\ o.tax = 78400 /\ o.total = 1058400

RedeliveredAfterCancel(w) ==
  /\ wk[w].pc = "get"
  /\ <<wk[w].batch[wk[w].idx], "CANCELLED">> \in wk[w].refusedBefore
  /\ \E k \in DOMAIN orders :
       orders[k].order_id = Message(w).order_id /\ orders[k].status = "CANCELLED"

\* C24: a redelivery of a work item whose CONFIRMED guard failed on a
\* cancelled order finds the order CANCELLED at its status check and skips
\* it: it goes on to the next record or to the return without listing the
\* item, and makes no Reserve or payment call.
C24_RedeliverySkipsCancelled ==
  [][\A w \in Workers :
       (RedeliveredAfterCancel(w) /\ wk'[w] # wk[w]) =>
         /\ wk'[w].pc \in {"get", "return"}
         /\ wk'[w].failures = wk[w].failures
         /\ hist'.reserved = hist.reserved /\ hist'.paid = hist.paid]_vars

\* ---------------------------------------------------------------- claim C25
\* The reserve invocation w passed its read phase and is about to commit a
\* well-formed transaction of which some item no longer has the stock.
LostTheStock(w) ==
  /\ rsv[w].pc = "commit"
  /\ DistinctTargets(rsv[w].store_id, rsv[w].items)
  /\ \E i \in DOMAIN rsv[w].items :
       ~ReserveCondition(inventory, StoreSku(rsv[w].store_id, rsv[w].items[i].sku),
                         rsv[w].items[i].quantity)

\* C25: when the stock of an item was taken between the read phase of a
\* Reserve and its commit, the commit changes no inventory record at all,
\* whatever the other items of the request could still get, and the
\* response is the failure "Inventory changed during reservation, please
\* retry".
C25_LostRaceRejectedWhole ==
  [][\A w \in Workers :
       (LostTheStock(w) /\ rsv'[w].pc = "done") =>
         /\ inventory' = inventory
         /\ ~rsv'[w].resp.success
         /\ rsv'[w].resp.error = "Inventory changed during reservation, please retry"]_vars

\* A two-item request lost the race: it was answered "inventory changed"
\* although one of its items still has the stock it asked for, while the
\* other invocation's reservation is committed.
C25_Witness ==
  \E w \in Workers, v \in Workers :
    /\ w # v
    /\ rsv[w].pc = "done" /\ rsv[w].resp = RsvChanged
    /\ Len(rsv[w].items) = 2
    /\ \E i \in DOMAIN rsv[w].items :
         ReserveCondition(inventory, StoreSku(rsv[w].store_id, rsv[w].items[i].sku),
                          rsv[w].items[i].quantity)
    /\ rsv[v].pc = "done" /\ rsv[v].resp = RsvOk
    /\ \E k \in DOMAIN inventory : inventory[k].quantity_reserved > 0

\* ---------------------------------------------------------------- claim C26
\* What is left of a SKU: quantity_available - quantity_reserved, 0 when the
\* record is absent.
LeftOf(storeSku) ==
  IF storeSku \in DOMAIN inventory
  THEN inventory[storeSku].quantity_available - inventory[storeSku].quantity_reserved
  ELSE 0

\* The lines of a request that ask for more than is left, in request order,
\* each with what it asked for and what is left.
RECURSIVE ShortLines(_, _)
ShortLines(storeId, items) ==
  IF items = <<>> THEN <<>>
  ELSE (IF LeftOf(StoreSku(storeId, Head(items).sku)) < Head(items).quantity
        THEN <<[sku |-> Head(items).sku, requested |-> Head(items).quantity,
                available |-> LeftOf(StoreSku(storeId, Head(items).sku))]>>
        ELSE <<>>) \o ShortLines(storeId, Tail(items))

\* C26: a rejected Reserve (nothing was committed, so the inventory is as it
\* was read) says "Insufficient inventory" exactly when a line is short, and
\* its failed_items are exactly the short lines, each with the requested
\* quantity and the available quantity quantity_available -
\* quantity_reserved (0 for an absent record); an accepted Reserve reports
\* no failed item.  Asking 10 of a SKU with 5 on hand and 3 reserved reports
\* requested 10, available 2.
C26_RejectionReportsShortLines ==
  (rsv["w1"].pc = "done") =>
    /\ ~rsv["w1"].resp.success =>
         /\ rsv["w1"].resp.error = "Insufficient inventory"
              <=> ShortLines(rsv["w1"].store_id, rsv["w1"].items) # <<>>
         /\ rsv["w1"].resp.failed_items
              = ShortLines(rsv["w1"].store_id, rsv["w1"].items)
    /\ rsv["w1"].resp.success => rsv["w1"].resp.failed_items = <<>>
    /\ (/\ rsv["w1"].items = <<[sku |-> "WINE", quantity |-> 10]>>
        /\ inventory[StoreSku(StoreId, "WINE")]
             = [quantity_available |-> 5, quantity_reserved |-> 3]) =>
         rsv["w1"].resp.failed_items
           = <<[sku |-> "WINE", requested |-> 10, available |-> 2]>>

\* The example: 10 units asked of a SKU with 5 on hand and 3 reserved,
\* rejected with requested 10 and available 2.
C26_Witness ==
  /\ rsv["w1"].pc = "done"
  /\ rsv["w1"].items = <<[sku |-> "WINE", quantity |-> 10]>>
  /\ inventory[StoreSku(StoreId, "WINE")]
       = [quantity_available |-> 5, quantity_reserved |-> 3]
  /\ rsv["w1"].resp.failed_items
       = <<[sku |-> "WINE", requested |-> 10, available |-> 2]>>

\* A two-line request of which only the line for the absent SKU is short: it
\* alone is reported, with available 0.
C26_WitnessAbsent ==
  /\ rsv["w1"].pc = "done"
  /\ Len(rsv["w1"].items) = 2
  /\ StoreSku(StoreId, "BEER") \notin DOMAIN inventory
  /\ Len(rsv["w1"].resp.failed_items) = 1
  /\ rsv["w1"].resp.failed_items[1].sku = "BEER"
  /\ rsv["w1"].resp.failed_items[1].available = 0

\* ---------------------------------------------------------------- claim C27
\* C27: a POST /orders invocation whose guarded primary write succeeded
\* leaves createOrder with created = TRUE whatever becomes of the by-ID
\* write: the primary record is kept and the invocation goes on to enqueue
\* the work item and to answer 201.
C27_ByIdFailureStillCreated ==
  [][\A a \in Apis :
       (~api[a].direct /\ api[a].pc = "co_putbyid" /\ api'[a] # api[a]) =>
         /\ OrderKey(api[a].order) \in DOMAIN orders'
         /\ orders'[OrderKey(api[a].order)] = api[a].order
         /\ api'[a].returned /\ api'[a].created
         /\ api'[a].pc = "enqueue"]_vars

\* ---------------------------------------------------------------- claim C28
\* C28: once updateOrderStatus has updated the primary record, it returns
\* true whatever becomes of the by-ID update: the process-order handler goes
\* on to the CONFIRMED notification, and failOrder to the FAILED one, never
\* to a catch block.
C28_ByIdFailureNonFatal ==
  [][\A w \in Workers :
       /\ (wk[w].pc = "confirm_byid" /\ wk'[w] # wk[w]) => wk'[w].pc = "notify"
       /\ (wk[w].pc = "fail_byid" /\ wk'[w] # wk[w]) => wk'[w].pc = "fail_notify"]_vars

\* ---------------------------------------------------------------- claim C29
\* The by-ID projection shows the status of the primary record.
ProjectionsAgree ==
  \A k \in DOMAIN orders :
    /\ orders[k].order_id \in DOMAIN ordersById
    /\ ordersById[orders[k].order_id].status = orders[k].status

\* C29: the two projections converge: from some point on the status stored
\* in the by-ID projection equals the status of the primary record, also
\* when a worker failed between the primary write and the projection write.
C29_ProjectionsConverge == <>[]ProjectionsAgree

\* ---------------------------------------------------------------- claim C30
\* The step is one of the storage writes of createOrder or updateOrderStatus,
\* made by the invocation that is inside that operation.
RepositoryWrite ==
  \/ \E a \in Apis : api[a].pc \in {"co_put", "co_putbyid"} /\ api'[a] # api[a]
  \/ \E w \in Workers :
       /\ wk[w].pc \in {"confirm_primary", "confirm_byid", "fail_primary", "fail_byid"}
       /\ wk'[w] # wk[w]
  \/ \E x \in Cancels : cx[x].pc \in {"primary", "byid"} /\ cx'[x] # cx[x]

\* C30: every change of an order record, in the primary table or in the
\* by-ID projection, is made by createOrder or updateOrderStatus; no other
\* component writes an order record.
C30_OnlyRepositoryWrites ==
  [][(orders' # orders \/ ordersById' # ordersById) => RepositoryWrite]_vars

\* ---------------------------------------------------------------- claim C31
\* The Reserve call of worker w returned and its payment call did not: the
\* invocation itself failed (no answer of the payment function was read).
PaymentCallFaulted(w) ==
  /\ wk[w].pc \in {"fail_get", "fail_primary", "fail_byid", "fail_notify"}
  /\ wk[w].inventoryResult.ran
  /\ ~wk[w].paymentResult.ran

\* C31: a worker whose payment call failed as a call (communication fault,
\* timeout) does not treat it as a decline: none of its steps writes FAILED
\* to the order, in either projection.
C31_PaymentFaultIsNotDecline ==
  [][\A w \in Workers :
       (PaymentCallFaulted(w) /\ wk'[w] # wk[w]) =>
         /\ \A k \in DOMAIN orders' :
              orders'[k].status = "FAILED" =>
                k \in DOMAIN orders /\ orders[k].status = "FAILED"
         /\ \A o \in DOMAIN ordersById' :
              ordersById'[o].status = "FAILED" =>
                o \in DOMAIN ordersById /\ ordersById[o].status = "FAILED"]_vars

\* ---------------------------------------------------------------- claim C32
\* Every item the three tables hold.
StoredItems ==
  {orders[k] : k \in DOMAIN orders}
    \cup {ordersById[o] : o \in DOMAIN ordersById}
    \cup {inventory[k] : k \in DOMAIN inventory}

\* The item has the attributes of a Reservation.
IsReservation(r) ==
  {"reservation_id", "order_id", "store_sku", "quantity", "status", "expires_at"}
    \subseteq DOMAIN r

\* C32: once a Reserve has committed holds for an order, a Reservation record
\* of that order with status PENDING is stored.
C32_ReserveStoresReservation ==
  \A o \in OrderIds :
    hist.reserved[o] > 0 =>
      \E r \in StoredItems :
        IsReservation(r) /\ r.order_id = o /\ r.status = "PENDING"

\* ---------------------------------------------------------------- claim C33
\* C33: a work item is received at most maxReceiveCount (3) times; it is moved
\* to the dead-letter queue only after its third receive; and every work
\* item is in the end acknowledged (deleted) or dead-lettered.
C33_BoundedRedelivery ==
  /\ [](\A i \in DOMAIN queue :
          /\ queue[i].receives <= 3
          /\ queue[i].state = "dead" => queue[i].receives = 3)
  /\ <>[](\A i \in DOMAIN queue : queue[i].state \in {"deleted", "dead"})

\* The work item failed in each of its three deliveries, every time listed
\* by the handler, and was moved to the dead-letter queue.
C33_Witness ==
  /\ queue[1].state = "dead" /\ queue[1].receives = 3
  /\ 1 \in hist.reported
  /\ \A w \in Workers : wk[w].pc = "idle"

\* ------------------------------------------ specification: intake to reserve
\* POST /orders over every request body, and one process-order invocation
\* taking the work items the intake enqueues.
NextLines ==
  \/ \E body \in PostBodies, ts \in Timestamps :
       PostOrders("a1", "key-AAAA", body, ts)
  \/ CreatePutPrimary("a1")
  \/ CreatePutById("a1")
  \/ PostEnqueue("a1")
  \/ Orchestrator({"w1"})

SpecLines == Init /\ [][NextLines]_vars

\* ---------------------------------------------------------------- claim C34
\* The lines of a request are well formed: at least one line, every quantity
\* positive, no two lines with the same SKU.
WellFormedLines(items) ==
  /\ Len(items) >= 1
  /\ \A i \in DOMAIN items : items[i].quantity > 0
  /\ \A i \in DOMAIN items, j \in DOMAIN items :
       i # j => items[i].sku # items[j].sku

\* C34: every Reserve request the orchestrator makes carries well-formed
\* lines: no empty list, no zero quantity, no SKU twice.
C34_ReserveGetsWellFormedLines ==
  \A w \in Workers :
    (rsv[w].pc # "idle" /\ rsv[w].caller = "orchestrator")
      => WellFormedLines(rsv[w].items)

\* Reserve runs for an order that POST /orders accepted with the same SKU on
\* two lines.
C34_RepeatedSkuReachesReserve ==
  \E w \in Workers :
    /\ rsv[w].pc # "idle" /\ rsv[w].caller = "orchestrator"
    /\ Len(rsv[w].items) = 2
    /\ rsv[w].items[1].sku = rsv[w].items[2].sku
    /\ rsv[w].order_id \in DOMAIN ordersById

\* What the intake does keep out: Reserve never gets an empty list or a
\* line of quantity zero.
C34_NoEmptyNoZeroLines ==
  \A w \in Workers :
    (rsv[w].pc # "idle" /\ rsv[w].caller = "orchestrator")
      => /\ Len(rsv[w].items) >= 1
         /\ \A i \in DOMAIN rsv[w].items : rsv[w].items[i].quantity > 0

\* ---------------------------------------------------------------- claim C35
\* Worker w is at one of the two dispatches of a notification.
AtDispatch(w) == wk[w].pc \in {"notify", "fail_notify"}

\* C35: the dispatch of a notification, failed or not, changes no stored
\* order and does not add the work item to the failures the handler reports.
C35_DispatchIsFireAndForget ==
  [][\A w \in Workers :
       (AtDispatch(w) /\ wk'[w] # wk[w])
         => /\ orders' = orders
            /\ ordersById' = ordersById
            /\ wk'[w].failures = wk[w].failures]_vars

\* The order is CONFIRMED in both tables, its work item was acknowledged
\* and no invocation is running, yet no CONFIRMED notification was
\* dispatched: the dispatch failed and nothing else happened.
C35_Witness ==
  /\ \A w \in Workers : wk[w].pc = "idle"
  /\ \E o \in DOMAIN ordersById :
       /\ ordersById[o].status = "CONFIRMED"
       /\ <<o, "CONFIRMED">> \notin hist.notified
       /\ <<o, "FAILED">> \notin hist.notified
  /\ \A i \in DOMAIN queue : queue[i].state = "deleted"
  /\ hist.reported = {}

\* ------------------------------------------- specification: intake, retried
\* A client sends POST /orders and, once it is answered, sends the same
\* request again (same idempotency key, same body).  In the first
\* invocation the Put of the by-ID projection and sendOrderMessage can
\* reject; the retry meets no fault.  One process-order invocation at a time
\* takes the work items, with no fault of its own.
RetryBody ==
  [kind |-> "json",
   items |-> <<[sku |-> "WINE", quantity |-> 1, unit_price |-> 250000]>>]

\* The client's request: invocation a1 serves the first attempt, a2 the
\* retry.
ClientSends(a) ==
  /\ a = "a2" => api["a1"].pc = "done"
  /\ \E ts \in Timestamps : PostOrders(a, "key-AAAA", RetryBody, ts)

\* The steps the POST /orders invocation a takes by itself.
IntakeSteps(a) ==
  \/ ClientSends(a)
  \/ CreatePutPrimary(a)
  \/ CreatePutById(a)
  \/ PostEnqueue(a)

IntakeFaults(a) ==
  \/ CreatePutByIdThrows(a)
  \/ PostEnqueueThrows(a)

NextRetry ==
  \/ \E a \in Apis : IntakeSteps(a)
  \/ IntakeFaults("a1")
  \/ Orchestrator({"w1"})

\* The request and its retry are both sent and served to the end, the
\* event source keeps delivering and the worker keeps running; a fault is
\* never required to happen.
SpecRetry ==
  /\ Init
  /\ [][NextRetry]_vars
  /\ \A a \in Apis : WF_vars(IntakeSteps(a))
  /\ WF_vars(Progress("w1"))

\* ---------------------------------------------------------------- claim C36
NoPendingOrder ==
  /\ \A k \in DOMAIN orders : orders[k].status # "PENDING"
  /\ \A o \in DOMAIN ordersById : ordersById[o].status # "PENDING"

\* C36: with the intake's storage and queue calls able to fail and the
\* client retrying, every order stored PENDING leaves PENDING: from some
\* point on no stored order is PENDING.
C36_PendingIsLeft == <>[]NoPendingOrder

\* An intake invocation answered 500.
IntakeFailed ==
  \E a \in Apis :
    api[a].pc = "done" /\ ~api[a].direct /\ api[a].response.statusCode = 500

\* Without an intake fault every stored order does leave PENDING.
C36_PendingIsLeftWithoutFault == (<>IntakeFailed) \/ (<>[]NoPendingOrder)

\* ---------------------------------------------------------------- claim C37
\* C37: no step lowers the quantity_reserved of an inventory record or
\* removes the record: holds are only ever added.
C37_HoldsNeverReleased ==
  [][\A k \in DOMAIN inventory :
       /\ k \in DOMAIN inventory'
       /\ inventory'[k].quantity_reserved >= inventory[k].quantity_reserved]_vars

\* An order ended FAILED or CANCELLED after a Reserve committed for it, no
\* invocation is running, and the hold is still in place.
C37_Witness ==
  /\ \A w \in Workers : wk[w].pc = "idle"
  /\ \A x \in Cancels : cx[x].pc \in {"idle", "done"}
  /\ \E o \in DOMAIN ordersById :
       /\ ordersById[o].status \in {"FAILED", "CANCELLED"}
       /\ hist.reserved[o] > 0
  /\ \E k \in DOMAIN inventory : inventory[k].quantity_reserved > 0

\* ---------------------------------------------------------------- claim C38
\* The statuses the primary table stores for order o.
PrimaryStatuses(tbl, o) == {tbl[k].status : k \in {j \in DOMAIN tbl : tbl[j].order_id = o}}

\* A FAILED notification for order o is dispatched in this step.
FailedDispatched(o) ==
  /\ <<o, "FAILED">> \notin hist.notified
  /\ <<o, "FAILED">> \in hist'.notified

\* C38: a FAILED notification is dispatched only for an order whose
\* PENDING -> FAILED transition succeeded: its stored status is FAILED, never
\* CANCELLED or CONFIRMED.
C38_FailedNotifiedOnlyIfFailed ==
  [][\A o \in OrderIds :
       FailedDispatched(o) => PrimaryStatuses(orders, o) = {"FAILED"}]_vars

\* A FAILED notification was dispatched for an order that is CANCELLED or
\* CONFIRMED in both tables.
C38_NotifiedFailedButNot ==
  \E o \in DOMAIN ordersById :
    /\ <<o, "FAILED">> \in hist.notified
    /\ ordersById[o].status \in {"CANCELLED", "CONFIRMED"}
    /\ PrimaryStatuses(orders, o) = {ordersById[o].status}
    /\ \A n \in DOMAIN hist.log[o] : hist.log[o][n].to # "FAILED"

\* ---------------------------------------------------------------- claim C39
\* The by-ID record of order o says the payment was captured.
Captured(o) ==
  /\ "payment_state" \in DOMAIN ordersById[o]
  /\ ordersById[o].payment_state = "CAPTURED"

\* C39: no order is CANCELLED or FAILED while its recorded payment_state is
\* CAPTURED.
C39_NoCapturedMoneyOnDeadOrder ==
  \A o \in DOMAIN ordersById :
    ("status" \in DOMAIN ordersById[o]
       /\ ordersById[o].status \in {"CANCELLED", "FAILED"})
      => ~Captured(o)

\* The order is CANCELLED in both tables, every invocation has ended, and
\* the record still says CAPTURED.
C39_CancelledYetCaptured ==
  /\ \A w \in Workers : wk[w].pc = "idle"
  /\ \A x \in Cancels : cx[x].pc \in {"idle", "done"}
  /\ \E o \in DOMAIN ordersById :
       /\ "status" \in DOMAIN ordersById[o]
       /\ ordersById[o].status = "CANCELLED"
       /\ PrimaryStatuses(orders, o) = {"CANCELLED"}
       /\ Captured(o)

====
